---------------------------- MODULE Spec2Model ----------------------------
(***************************************************************************)
(* Model of the adaptive recommendation and weekly planning engine of the  *)
(* first dashboard (src/CODE-EDUCATIONAL-TRANSFORMATION-06.py), of its     *)
(* callbacks, and of the callbacks of the second dashboard                 *)
(* (src/CODE-IDM-04-E.py).                                                 *)
(*                                                                         *)
(* Real numbers are exact rationals [n |-> numerator, d |-> denominator],  *)
(* kept in lowest terms with d > 0, so that two equal numbers are one      *)
(* value.  Data frames are sequences of records, in row order.             *)
(***************************************************************************)
EXTENDS Integers, Sequences, FiniteSets, TLC

VARIABLES DF_STUD, DF_ITEMS, DF_TRAJ, now, recs, plan,
          api_store, page,
          agg, agg_prev,
          OPENAI_OK, api_key_data, students, autonomy_log, n_intervals,
          conversation, mentor, resend, panel

\* The stores and the responses of the callbacks of the first dashboard.
pageVars == <<api_store, page>>

\* The responses of the calls of recent_progress.
progressVars == <<agg, agg_prev>>

\* The stores, the timer and the responses of the second dashboard; resend
\* is a send of the chat issued while the send before it is being served.
idmVars == <<OPENAI_OK, api_key_data, students, autonomy_log, n_intervals,
             conversation, mentor, resend, panel>>

vars == <<DF_STUD, DF_ITEMS, DF_TRAJ, now, recs, plan, pageVars, progressVars, idmVars>>

(***************************************************************************)
(* Bounds of the model.                                                    *)
(***************************************************************************)
N_STUDENTS == 2
N_ITEMS == 6
HORIZON_DAYS == 2
MaxClock == 7

(***************************************************************************)
(* Exact rational arithmetic.                                              *)
(***************************************************************************)
Abs(x) == IF x < 0 THEN -x ELSE x

RECURSIVE GCD(_, _)
GCD(a, b) == IF b = 0 THEN a ELSE GCD(b, a % b)

Rat(n, d) ==
    LET s == IF d < 0 THEN -1 ELSE 1
        g == GCD(Abs(n), Abs(d))
    IN  [n |-> (s * n) \div g, d |-> (s * d) \div g]

RInt(i) == [n |-> i, d |-> 1]

\* The operations reduce by common factors before they multiply, which keeps
\* the intermediate integers small.
RAdd(x, y) ==
    LET g == GCD(x.d, y.d)
    IN  Rat(x.n * (y.d \div g) + y.n * (x.d \div g), (x.d \div g) * y.d)

RNeg(x) == [n |-> -x.n, d |-> x.d]

RSub(x, y) == RAdd(x, RNeg(y))

RMul(x, y) ==
    LET g1 == GCD(Abs(x.n), y.d)
        g2 == GCD(Abs(y.n), x.d)
    IN  Rat((x.n \div g1) * (y.n \div g2), (x.d \div g2) * (y.d \div g1))

RDiv(x, y) == RMul(x, Rat(y.d, y.n))

RLt(x, y) ==
    LET g == GCD(x.d, y.d)
    IN  x.n * (y.d \div g) < y.n * (x.d \div g)

RLe(x, y) == ~RLt(y, x)

RAbs(x) == [n |-> Abs(x.n), d |-> x.d]

\* np.clip that leaves x as it is.
RClip_None(x, lo, hi) == x

\* np.clip(x, lo, hi)
RClip(x, lo, hi) == IF RLt(x, lo) THEN lo ELSE IF RLt(hi, x) THEN hi ELSE x

RECURSIVE RSum(_)
RSum(s) == IF s = <<>> THEN RInt(0) ELSE RAdd(Head(s), RSum(Tail(s)))

\* Series.mean()
RMean(s) == RDiv(RSum(s), RInt(Len(s)))

(***************************************************************************)
(* Sequence helpers: boolean-mask row selection, column projection, and    *)
(* the stable sort that pandas applies to several keys.                    *)
(***************************************************************************)
\* The sequence f with every element evaluated.
Rows(f) == f \o <<>>

\* The elements of s without repetitions, in order of first occurrence.
Distinct(s) ==
    LET firsts == {i \in 1..Len(s) : \A j \in 1..(i - 1) : s[j] # s[i]}
        IsFirst(i) == i \in firsts
        idx == SelectSeq(Rows([i \in 1..Len(s) |-> i]), IsFirst)
    IN  Rows([p \in 1..Len(idx) |-> s[idx[p]]])

\* df[mask]
SelectRows(df, Test(_)) == SelectSeq(df, Test)

Column(df, F(_)) == [i \in 1..Len(df) |-> F(df[i])] \o <<>>

Reverse(s) == [i \in 1..Len(s) |-> s[Len(s) + 1 - i]] \o <<>>

\* Rows of df in ascending order of Lt; rows that Lt does not order keep
\* their order in df.  Row i goes to the place after the rows that precede it.
StableSort(df, Lt(_, _)) ==
    LET n == Len(df)
        Before(j, i) == Lt(df[j], df[i]) \/ (~Lt(df[i], df[j]) /\ j < i)
        place == [i \in 1..n |-> Cardinality({j \in 1..n : Before(j, i)}) + 1] \o <<>>
    IN  [p \in 1..n |-> df[CHOOSE i \in 1..n : place[i] = p]] \o <<>>

\* head(n) that keeps every row.
HeadRows_All(df, n) == df

\* DataFrame.head(n)
HeadRows(df, n) == SubSeq(df, 1, IF Len(df) < n THEN Len(df) ELSE n)

(***************************************************************************)
(* Domain names and the order of Python strings (by code point).           *)
(***************************************************************************)
DOMAINS == <<"Algebra", "Probability", "Calculus", "Statistics", "Programming">>

DomainSet == {DOMAINS[i] : i \in 1..Len(DOMAINS)}

CodePoints(d) ==
    CASE d = "Algebra"     -> <<65, 108, 103, 101, 98, 114, 97>>
      [] d = "Probability" -> <<80, 114, 111, 98, 97, 98, 105, 108, 105, 116, 121>>
      [] d = "Calculus"    -> <<67, 97, 108, 99, 117, 108, 117, 115>>
      [] d = "Statistics"  -> <<83, 116, 97, 116, 105, 115, 116, 105, 99, 115>>
      [] d = "Programming" -> <<80, 114, 111, 103, 114, 97, 109, 109, 105, 110, 103>>

RECURSIVE SeqLess(_, _)
SeqLess(s, t) ==
    IF t = <<>> THEN FALSE
    ELSE IF s = <<>> THEN TRUE
    ELSE IF Head(s) # Head(t) THEN Head(s) < Head(t)
    ELSE SeqLess(Tail(s), Tail(t))

\* The order of the names in DOMAINS instead of the order of the strings.
StrLess_Enumeration(x, y) ==
    (CHOOSE i \in 1..Len(DOMAINS) : DOMAINS[i] = x)
        < (CHOOSE i \in 1..Len(DOMAINS) : DOMAINS[i] = y)

StrLess(x, y) == SeqLess(CodePoints(x), CodePoints(y))

DomainIndex(d) == CHOOSE i \in 1..Len(DOMAINS) : DOMAINS[i] = d

(***************************************************************************)
(* 1) Data simulation.  The random draws of the generators are inputs:     *)
(* one learner draw and one trajectory draw per student, one item draw per *)
(* item.  The generators apply the arithmetic and the clipping of the      *)
(* source to them.                                                         *)
(***************************************************************************)
\* simulate_students: row i holds student_id i-1 (np.arange) and the clipped draws.
simulate_students(draws) ==
    Rows([i \in 1..Len(draws) |->
        [student_id |-> i - 1,
         ability_g  |-> draws[i].ability_g,
         engagement |-> RClip(draws[i].engagement, RInt(0), RInt(1)),
         affinity   |-> [d \in DomainSet |->
                            RClip(draws[i].affinity[d], RInt(-2), RInt(2))]]])

\* simulate_trajectories: one row per student, domain (in DOMAINS order) and
\* day k = 0..horizon-1, dated today - (horizon - k); today is the day of the load.
simulate_trajectories(df_students, draws, today, horizon) ==
    LET nd == Len(DOMAINS)
        Row(i) ==
            LET s  == ((i - 1) \div (nd * horizon)) + 1
                d  == DOMAINS[(((i - 1) \div horizon) % nd) + 1]
                k  == (i - 1) % horizon
                r  == df_students[s]
                mu == RAdd(RAdd(RAdd(Rat(55, 100), RMul(Rat(18, 100), r.ability_g)),
                                RMul(Rat(12, 100), r.affinity[d])),
                           RAdd(draws[s].noise[d], RMul(draws[s].drift, RInt(k))))
            IN  [student_id  |-> r.student_id,
                 domain      |-> d,
                 date        |-> today - (horizon - k),
                 minutes     |-> draws[s].minutes * (k + 1),
                 micro_score |-> RClip(mu, Rat(5, 100), Rat(98, 100))]
    IN  Rows([i \in 1..(Len(df_students) * nd * horizon) |-> Row(i)])

(***************************************************************************)
(* Draws of the planning specification.                                    *)
(***************************************************************************)
AffinityFlat == [d \in DomainSet |-> RInt(0)]

\* -3, -1.5, 0, 1.5, 3 along DOMAINS: the ends are clipped to -2 and 2.
AffinityRamp == [d \in DomainSet |-> Rat(3 * (DomainIndex(d) - 3), 2)]

LearnerDraws ==
    { [ability_g |-> RInt(0), engagement |-> Rat(3, 10), affinity |-> AffinityFlat],
      [ability_g |-> Rat(1, 2), engagement |-> Rat(12, 10), affinity |-> AffinityRamp] }

\* With ability 0 and affinity 0: micro 0.90, 0.10, 0.55, 0.98 (clipped), 0.05 (clipped).
NoiseSpiky ==
    [d \in DomainSet |->
        CASE d = "Algebra"     -> Rat(35, 100)
          [] d = "Probability" -> Rat(-45, 100)
          [] d = "Calculus"    -> RInt(0)
          [] d = "Statistics"  -> Rat(60, 100)
          [] d = "Programming" -> Rat(-60, 100)]

\* Two domains with equal scores, the others apart.
NoiseMixed ==
    [d \in DomainSet |->
        CASE d = "Algebra"     -> Rat(2, 10)
          [] d = "Probability" -> Rat(2, 10)
          [] d = "Calculus"    -> RInt(0)
          [] d = "Statistics"  -> Rat(-1, 10)
          [] d = "Programming" -> Rat(-2, 10)]

\* Scores that stay the same from day to day, and scores that rise by 0.05 a day.
TrajDraws ==
    { [noise |-> NoiseSpiky, drift |-> RInt(0),     minutes |-> 10],
      [noise |-> NoiseMixed, drift |-> Rat(5, 100), minutes |-> 3] }

(***************************************************************************)
(* recent_progress(df_traj, days): rows dated on or after today - days,    *)
(* grouped by (student_id, domain), groups in ascending key order.         *)
(***************************************************************************)
KeyLess(x, y) ==
    \/ x.student_id < y.student_id
    \/ x.student_id = y.student_id /\ StrLess(x.domain, y.domain)

\* recent_progress without the date filter.
recent_progress_NoCutoff(df_traj, today, window) ==
    LET df == df_traj
        Key(r) == [student_id |-> r.student_id, domain |-> r.domain]
        keys == StableSort(Distinct(Column(df, Key)), KeyLess)
        Micro(r) == r.micro_score
        Minutes(r) == RInt(r.minutes)
        Agg(k) ==
            LET Member(r) == r.student_id = k.student_id /\ r.domain = k.domain
                group == SelectRows(df, Member)
            IN  [student_id |-> k.student_id,
                 domain     |-> k.domain,
                 minutes    |-> RSum(Column(group, Minutes)).n,
                 micro_mean |-> RMean(Column(group, Micro))]
    IN  Column(keys, Agg)

\* recent_progress that gives a row of zeros to a pair without a record in
\* the window.
recent_progress_ZeroFill(df_traj, today, window) ==
    LET cutoff == today - window
        InWindow(r) == r.date >= cutoff
        df == SelectRows(df_traj, InWindow)
        Key(r) == [student_id |-> r.student_id, domain |-> r.domain]
        keys == StableSort(Distinct(Column(df_traj, Key)), KeyLess)
        Minutes(r) == RInt(r.minutes)
        Micro(r) == r.micro_score
        Agg(k) ==
            LET Member(r) == r.student_id = k.student_id /\ r.domain = k.domain
                group == SelectRows(df, Member)
            IN  [student_id |-> k.student_id,
                 domain     |-> k.domain,
                 minutes    |-> RSum(Column(group, Minutes)).n,
                 micro_mean |-> IF Len(group) = 0 THEN RInt(0)
                                ELSE RMean(Column(group, Micro))]
    IN  Column(keys, Agg)

recent_progress(df_traj, today, window) ==
    LET cutoff == today - window
        InWindow(r) == r.date >= cutoff
        df == SelectRows(df_traj, InWindow)
        Key(r) == [student_id |-> r.student_id, domain |-> r.domain]
        keys == StableSort(Distinct(Column(df, Key)), KeyLess)
        Minutes(r) == RInt(r.minutes)
        Micro(r) == r.micro_score
        Agg(k) ==
            LET Member(r) == r.student_id = k.student_id /\ r.domain = k.domain
                group == SelectRows(df, Member)
            IN  [student_id |-> k.student_id,
                 domain     |-> k.domain,
                 minutes    |-> RSum(Column(group, Minutes)).n,
                 micro_mean |-> RMean(Column(group, Micro))]
    IN  Column(keys, Agg)

(***************************************************************************)
(* 7) Agent callback: build_agent_plan.                                    *)
(***************************************************************************)
LookbackDays == 7

days == <<"Mon", "Tue", "Wed", "Thu", "Fri", "Sat", "Sun">>

DayShape == <<Rat(11, 10), Rat(11, 10), Rat(11, 10), RInt(1), RInt(1), Rat(8, 10), Rat(9, 10)>>

Priorities == {"weak", "strong", "balanced"}

\* The slider offers 2..10 in steps of 0.5.
GoalVals == {RInt(2), RInt(4), RInt(7), RInt(10)}

\* RawWeights with the 'weak' and 'strong' columns exchanged.
RawWeights_Swapped(df7s, priority) ==
    LET Equal(d) == [domain |-> d, weight |-> RDiv(RInt(1), RInt(Len(DOMAINS)))]
        Inv(r) == [domain |-> r.domain, weight |-> RSub(RInt(1), r.micro_mean)]
        Wt(r) == [domain |-> r.domain, weight |-> r.micro_mean]
        One(r) == [domain |-> r.domain, weight |-> RInt(1)]
    IN  IF Len(df7s) = 0 THEN Column(DOMAINS, Equal)
        ELSE IF priority = "weak" THEN Column(df7s, Wt)
        ELSE IF priority = "strong" THEN Column(df7s, Inv)
        ELSE Column(df7s, One)

\* RawWeights whose last branch weighs by the score, as 'strong' does.
RawWeights_BalancedByScore(df7s, priority) ==
    LET Equal(d) == [domain |-> d, weight |-> RDiv(RInt(1), RInt(Len(DOMAINS)))]
        Inv(r) == [domain |-> r.domain, weight |-> RSub(RInt(1), r.micro_mean)]
        Wt(r) == [domain |-> r.domain, weight |-> r.micro_mean]
    IN  IF Len(df7s) = 0 THEN Column(DOMAINS, Equal)
        ELSE IF priority = "weak" THEN Column(df7s, Inv)
        ELSE Column(df7s, Wt)

\* The weight column before grouping (lines 1077-1090).
RawWeights(df7s, priority) ==
    LET Equal(d) == [domain |-> d, weight |-> RDiv(RInt(1), RInt(Len(DOMAINS)))]
        Inv(r) == [domain |-> r.domain, weight |-> RSub(RInt(1), r.micro_mean)]
        Wt(r) == [domain |-> r.domain, weight |-> r.micro_mean]
        One(r) == [domain |-> r.domain, weight |-> RInt(1)]
    IN  IF Len(df7s) = 0 THEN Column(DOMAINS, Equal)
        ELSE IF priority = "weak" THEN Column(df7s, Inv)
        ELSE IF priority = "strong" THEN Column(df7s, Wt)
        ELSE Column(df7s, One)

\* NormalWeights dividing by the number of domains instead of the sum of the weights.
NormalWeights_ByCount(raw) ==
    LET Dom(r) == r.domain
        Wt(r) == r.weight
        keys == StableSort(Distinct(Column(raw, Dom)), StrLess)
        Mean(d) ==
            LET Member(r) == r.domain = d
            IN  [domain |-> d, weight |-> RMean(Column(SelectRows(raw, Member), Wt))]
        grouped == Column(keys, Mean)
        Norm(r) == [domain |-> r.domain, weight |-> RDiv(r.weight, RInt(Len(grouped)))]
    IN  Column(grouped, Norm)

\* weights.groupby("domain").agg(mean), then weight / weight.sum() (lines 1091-1092).
NormalWeights(raw) ==
    LET Dom(r) == r.domain
        Wt(r) == r.weight
        keys == StableSort(Distinct(Column(raw, Dom)), StrLess)
        Mean(d) ==
            LET Member(r) == r.domain = d
            IN  [domain |-> d, weight |-> RMean(Column(SelectRows(raw, Member), Wt))]
        grouped == Column(keys, Mean)
        total == RSum(Column(grouped, Wt))
        Norm(r) == [domain |-> r.domain, weight |-> RDiv(r.weight, total)]
    IN  Column(grouped, Norm)

\* DayRows without the renormalisation of day_weights.
DayRows_NoRenorm(d, base, engagement) ==
    LET factor == RAdd(Rat(8, 10), RMul(Rat(4, 10), engagement))
        Scale(x) == RMul(x, factor)
        day_weights == Column(DayShape, Scale)
    IN  Rows([i \in 1..Len(days) |->
            [domain |-> d, day |-> days[i], hours |-> RMul(base, day_weights[i])]])

\* DayRows with the shares of the days taken first and the factor of the
\* engagement applied to them afterwards.
DayRows_ScaledAfter(d, base, engagement) ==
    LET factor == RAdd(Rat(8, 10), RMul(Rat(4, 10), engagement))
        total == RSum(DayShape)
        Share(x) == RMul(RDiv(x, total), factor)
        day_weights == Column(DayShape, Share)
    IN  Rows([i \in 1..Len(days) |->
            [domain |-> d, day |-> days[i], hours |-> RMul(base, day_weights[i])]])

\* The rows of df_sched for one domain (lines 1102-1109).
DayRows(d, base, engagement) ==
    LET factor == RAdd(Rat(8, 10), RMul(Rat(4, 10), engagement))
        Scale(x) == RMul(x, factor)
        scaled == Column(DayShape, Scale)
        total == RSum(scaled)
        Share(x) == RDiv(x, total)
        day_weights == Column(scaled, Share)
    IN  Rows([i \in 1..Len(days) |->
            [domain |-> d, day |-> days[i], hours |-> RMul(base, day_weights[i])]])

RECURSIVE Concat(_)
Concat(ss) == IF ss = <<>> THEN <<>> ELSE Head(ss) \o Concat(Tail(ss))

build_agent_plan(df_stud, df_traj, today, student_id, priority, goal_h) ==
    LET df7 == recent_progress(df_traj, today, LookbackDays)
        Mine(r) == r.student_id = student_id
        df7s == SelectRows(df7, Mine)
        Hours(r) == [domain |-> r.domain, weight |-> r.weight,
                     hours |-> RMul(r.weight, goal_h)]
        weights == Column(NormalWeights(RawWeights(df7s, priority)), Hours)
        found == SelectRows(df_stud, Mine)
        Base(d) ==
            LET Named(r) == r.domain = d
            IN  SelectRows(weights, Named)[1].hours
        Assign(r) == DayRows(r.domain, Base(r.domain), found[1].engagement)
    IN  IF Len(found) = 0
        THEN [kind |-> "raised", error |-> "IndexError"]
        ELSE [kind |-> "plan",
              weights |-> weights,
              df_sched |-> Concat(Column(weights, Assign))]

(***************************************************************************)
(* The planning specification: the tables are generated at load (day 0),   *)
(* the calendar day advances, and the agent tab is asked for plans.  The   *)
(* server runs one callback at a time: plan holds the request being served *)
(* and its response until the response is returned to the browser.  The id *)
(* N_STUDENTS stands for an id outside the learner table.                  *)
(***************************************************************************)
NoRequest == [op |-> "none"]

NoResult == [kind |-> "none"]

Idle == [request |-> NoRequest, result |-> NoResult]

\* Python values of the stores: None, and a dict as its set of items.
PyNone == [py |-> "None", items |-> {}]

PyDict(items) == [py |-> "dict", items |-> items]

\* A callback that calls the chat-completion service is served in two steps,
\* the call and the return of the call: phase tells them apart.
PageIdle == [request |-> NoRequest, phase |-> "idle", result |-> NoResult]

\* dcc.Store(id="store-api-key") holds no data before save_api_key runs, and
\* no callback has answered.
InitPage ==
    /\ api_store = PyNone
    /\ page = PageIdle

\* No call of recent_progress has returned.
InitProgress ==
    /\ agg = Idle
    /\ agg_prev = Idle

\* The cohort of the second dashboard, progress and autonomy in [0, 1].
INITIAL_STUDENTS ==
    << [id |-> 1, name |-> "Student A", module |-> "Linear Algebra",
        progress |-> Rat(35, 100), autonomy |-> Rat(40, 100), difficulty |-> "medium"],
       [id |-> 2, name |-> "Student B", module |-> "Programming I",
        progress |-> Rat(70, 100), autonomy |-> Rat(65, 100), difficulty |-> "low"],
       [id |-> 3, name |-> "Student C", module |-> "Differential Calculus",
        progress |-> Rat(50, 100), autonomy |-> Rat(45, 100), difficulty |-> "high"],
       [id |-> 4, name |-> "Student D", module |-> "Educational Statistics",
        progress |-> Rat(85, 100), autonomy |-> Rat(80, 100), difficulty |-> "low"] >>

\* os.getenv("OPENAI_API_KEY", "") of a process started without the variable.
DEFAULT_OPENAI_API_KEY == ""

\* The layout of the second dashboard: the data of its stores, the timer at
\* n_intervals = 0, and no callback answered.
InitStores ==
    /\ api_key_data = PyDict({<<"api_key", DEFAULT_OPENAI_API_KEY>>})
    /\ students = INITIAL_STUDENTS
    /\ autonomy_log = <<>>
    /\ n_intervals = 0
    /\ conversation = <<>>
    /\ mentor = PageIdle
    /\ resend = PageIdle
    /\ panel = Idle

InitPlan ==
    \E ld \in [1..N_STUDENTS -> LearnerDraws], td \in [1..N_STUDENTS -> TrajDraws] :
        /\ DF_STUD = simulate_students(ld)
        /\ DF_TRAJ = simulate_trajectories(simulate_students(ld), td, 0, HORIZON_DAYS)
        /\ DF_ITEMS = <<>>
        /\ now = 0
        /\ recs = Idle
        /\ plan = Idle
        /\ InitPage
        /\ InitProgress
        /\ OPENAI_OK = TRUE
        /\ InitStores

\* datetime.now().date() moves on by one day.
Tick ==
    /\ now < MaxClock
    /\ now' = now + 1
    /\ recs' = Idle
    /\ plan' = Idle
    /\ UNCHANGED <<DF_STUD, DF_ITEMS, DF_TRAJ, pageVars, progressVars, idmVars>>

\* The response of the callback leaves the server.
Return ==
    /\ plan # Idle \/ recs # Idle
    /\ plan' = Idle
    /\ recs' = Idle
    /\ UNCHANGED <<DF_STUD, DF_ITEMS, DF_TRAJ, now, pageVars, progressVars, idmVars>>

BuildAgentPlan(student_id, priority, goal_h) ==
    /\ plan = Idle
    /\ plan' = [request |-> [op |-> "build_agent_plan", student_id |-> student_id,
                             priority |-> priority, goal_h |-> goal_h],
                result  |-> build_agent_plan(DF_STUD, DF_TRAJ, now,
                                             student_id, priority, goal_h)]
    /\ UNCHANGED <<DF_STUD, DF_ITEMS, DF_TRAJ, now, recs, pageVars, progressVars, idmVars>>

AgentRequest ==
    \E student_id \in 0..N_STUDENTS, priority \in Priorities, goal_h \in GoalVals :
        BuildAgentPlan(student_id, priority, goal_h)

NextPlan == Tick \/ Return \/ AgentRequest

SpecPlan == InitPlan /\ [][NextPlan]_vars

(***************************************************************************)
(* simulate_item_bank: row i holds item_id i-1, the drawn domain and        *)
(* difficulty, and the clipped discrimination and expected time.           *)
(***************************************************************************)
simulate_item_bank(draws) ==
    Rows([i \in 1..Len(draws) |->
        [item_id        |-> i - 1,
         domain         |-> draws[i].domain,
         a              |-> RClip(draws[i].a, Rat(6, 10), Rat(18, 10)),
         b              |-> draws[i].b,
         t_expected_min |-> RClip(draws[i].t, RInt(3), RInt(20))]])

(***************************************************************************)
(* recommend_items(student_id, df_students, df_items, score_history).      *)
(* sort_values("gap") is the default quicksort of one key, which leaves    *)
(* the order of rows of equal gap to the build: ties is that order, the    *)
(* rows of equal gap staying as they were or coming out reversed.  The     *)
(* final sort_values(["domain", "gap"]) is the stable sort of several      *)
(* keys.  The logit column is the argument a * (theta_d - b) of p_success. *)
(***************************************************************************)
TopK == 3

ThetaMin == Rat(-25, 10)

ThetaMax == Rat(25, 10)

TieOrders == {"kept", "reversed"}

GapLess(x, y) == RLt(x.gap, y.gap)

DomainGapLess(x, y) ==
    \/ StrLess(x.domain, y.domain)
    \/ x.domain = y.domain /\ RLt(x.gap, y.gap)

\* sort_values("gap") that leaves the candidates in bank order.
SortByGap_Unsorted(candidates, ties) == candidates

\* sort_values("gap")
SortByGap(candidates, ties) ==
    IF ties = "kept" THEN StableSort(candidates, GapLess)
    ELSE StableSort(Reverse(candidates), GapLess)

\* ThetaOf with the coefficients of ability and affinity exchanged.
ThetaOf_SwappedCoefficients(student_id, d, df_students, score_history) ==
    LET Hist(r) == r.student_id = student_id /\ r.domain = d
        hist == SelectRows(score_history, Hist)
        Micro(r) == r.micro_score
        Mine(r) == r.student_id = student_id
        found == SelectRows(df_students, Mine)
    IN  IF Len(hist) > 0
        THEN [raised |-> FALSE,
              value  |-> RClip(RDiv(RSub(RMean(Column(hist, Micro)), Rat(5, 10)),
                                    Rat(2, 10)),
                               Rat(-25, 10), Rat(25, 10))]
        ELSE IF Len(found) = 0 THEN [raised |-> TRUE, value |-> RInt(0)]
        ELSE [raised |-> FALSE,
              value  |-> RClip(RAdd(RMul(found[1].ability_g, Rat(3, 10)),
                                    RMul(found[1].affinity[d], Rat(7, 10))),
                               Rat(-25, 10), Rat(25, 10))]

\* ThetaOf with the history of the learner taken over every domain.
ThetaOf_AnyDomain(student_id, d, df_students, score_history) ==
    LET Hist(r) == r.student_id = student_id
        hist == SelectRows(score_history, Hist)
        Micro(r) == r.micro_score
        Mine(r) == r.student_id = student_id
        found == SelectRows(df_students, Mine)
    IN  IF Len(hist) > 0
        THEN [raised |-> FALSE,
              value  |-> RClip(RDiv(RSub(RMean(Column(hist, Micro)), Rat(5, 10)),
                                    Rat(2, 10)),
                               Rat(-25, 10), Rat(25, 10))]
        ELSE IF Len(found) = 0 THEN [raised |-> TRUE, value |-> RInt(0)]
        ELSE [raised |-> FALSE,
              value  |-> RClip(RAdd(RMul(found[1].ability_g, Rat(7, 10)),
                                    RMul(found[1].affinity[d], Rat(3, 10))),
                               Rat(-25, 10), Rat(25, 10))]

\* theta_d of lines 235-245; the lookup raises IndexError when the estimate
\* needs the row of a learner that df_students does not hold.
ThetaOf(student_id, d, df_students, score_history) ==
    LET Hist(r) == r.student_id = student_id /\ r.domain = d
        hist == SelectRows(score_history, Hist)
        Micro(r) == r.micro_score
        Mine(r) == r.student_id = student_id
        found == SelectRows(df_students, Mine)
    IN  IF Len(hist) > 0
        THEN [raised |-> FALSE,
              value  |-> RClip(RDiv(RSub(RMean(Column(hist, Micro)), Rat(5, 10)),
                                    Rat(2, 10)),
                               ThetaMin, ThetaMax)]
        ELSE IF Len(found) = 0 THEN [raised |-> TRUE, value |-> RInt(0)]
        ELSE [raised |-> FALSE,
              value  |-> RClip(RAdd(RMul(found[1].ability_g, Rat(7, 10)),
                                    RMul(found[1].affinity[d], Rat(3, 10))),
                               ThetaMin, ThetaMax)]

\* The frame top of one domain (lines 246-252).
TopOf(d, theta_d, df_items, ties) ==
    LET InDomain(r) == r.domain = d
        WithGap(r) ==
            [domain |-> r.domain, item_id |-> r.item_id, a |-> r.a, b |-> r.b,
             t_expected_min |-> r.t_expected_min,
             gap     |-> RAbs(RSub(r.b, theta_d)),
             logit   |-> RMul(r.a, RSub(theta_d, r.b)),
             theta_d |-> theta_d]
        candidates == Column(SelectRows(df_items, InDomain), WithGap)
    IN  HeadRows(SortByGap(candidates, ties), TopK)

recommend_items(student_id, df_students, df_items, score_history, ties) ==
    LET Theta(d) == ThetaOf(student_id, d, df_students, score_history)
        Top(d) == TopOf(d, Theta(d).value, df_items, ties)
    IN  IF \E i \in 1..Len(DOMAINS) : Theta(DOMAINS[i]).raised
        THEN [kind |-> "raised", error |-> "IndexError"]
        ELSE [kind |-> "recs",
              rows |-> StableSort(Concat(Column(DOMAINS, Top)), DomainGapLess)]

(***************************************************************************)
(* The recommendation specification: recommend_items as a function of its  *)
(* arguments.  The learner table and the item bank come from the           *)
(* generators; the score history is any table of scored records, those of  *)
(* a learner that the learner table does not hold included.                *)
(***************************************************************************)
AffinityHigh == [d \in DomainSet |-> RInt(2)]

RecLearnerDraws ==
    LearnerDraws \cup
        { [ability_g |-> RInt(5), engagement |-> Rat(1, 2), affinity |-> AffinityHigh] }

\* Domains of the item draws: every domain in turn; one domain only; three
\* domains in turn; two domains in blocks.
DomainPatterns == {"all", "one", "three", "blocks"}

DrawnDomain(pattern, i) ==
    CASE pattern = "all"    -> DOMAINS[((i - 1) % Len(DOMAINS)) + 1]
      [] pattern = "one"    -> "Calculus"
      [] pattern = "three"  -> <<"Probability", "Calculus", "Programming">>[((i - 1) % 3) + 1]
      [] pattern = "blocks" -> IF i <= 4 THEN "Statistics" ELSE "Algebra"

\* Difficulties of the item draws: rising, all equal, swinging around 0.
DifficultyPatterns == {"rising", "equal", "swinging"}

DrawnDifficulty(pattern, i) ==
    CASE pattern = "rising"   -> Rat(i - 3, 2)
      [] pattern = "equal"    -> RInt(0)
      [] pattern = "swinging" -> Rat((IF i % 2 = 0 THEN i ELSE -i), 2)

ItemDraws(dp, bp) ==
    Rows([i \in 1..N_ITEMS |->
        [domain |-> DrawnDomain(dp, i),
         b      |-> DrawnDifficulty(bp, i),
         a      |-> Rat(2 + (i % 3), 4),
         t      |-> RInt(3 * i - 1)]])

\* Histories of one learner: no record; records in two domains only; records
\* in every domain, with scores beyond [0, 1] in some.
HistoryPatterns == {"none", "some", "every"}

HistoryOf(sid, pattern) ==
    LET Rec(d, date, score) ==
            [student_id |-> sid, domain |-> d, date |-> date, minutes |-> 5,
             micro_score |-> score]
        Extreme(i) ==
            Rec(DOMAINS[i], -i,
                CASE i = 1 -> Rat(12, 10)
                  [] i = 2 -> Rat(-1, 10)
                  [] i = 3 -> Rat(98, 100)
                  [] i = 4 -> Rat(5, 100)
                  [] OTHER -> Rat(1, 2))
    IN  CASE pattern = "none"  -> <<>>
          [] pattern = "some"  -> << Rec("Algebra", -1, Rat(3, 10)),
                                     Rec("Calculus", -9, Rat(7, 10)),
                                     Rec("Algebra", -20, Rat(6, 10)) >>
          [] pattern = "every" -> Rows([i \in 1..Len(DOMAINS) |-> Extreme(i)])

InitRec ==
    \E ld \in [1..N_STUDENTS -> RecLearnerDraws],
       hp \in [1..N_STUDENTS + 1 -> HistoryPatterns],
       dp \in DomainPatterns, bp \in DifficultyPatterns :
        /\ DF_STUD = simulate_students(ld)
        /\ DF_ITEMS = simulate_item_bank(ItemDraws(dp, bp))
        /\ DF_TRAJ = Concat(Rows([i \in 1..N_STUDENTS + 1 |-> HistoryOf(i - 1, hp[i])]))
        /\ now = 0
        /\ recs = Idle
        /\ plan = Idle
        /\ InitPage
        /\ InitProgress
        /\ OPENAI_OK = TRUE
        /\ InitStores

RecommendItems(student_id, ties) ==
    /\ recs = Idle
    /\ recs' = [request |-> [op |-> "recommend_items", student_id |-> student_id],
                result  |-> recommend_items(student_id, DF_STUD, DF_ITEMS, DF_TRAJ, ties)]
    /\ UNCHANGED <<DF_STUD, DF_ITEMS, DF_TRAJ, now, plan, pageVars, progressVars, idmVars>>

RecRequest ==
    \E student_id \in 0..N_STUDENTS, ties \in TieOrders :
        RecommendItems(student_id, ties)

NextRec == Return \/ RecRequest

SpecRec == InitRec /\ [][NextRec]_vars

(***************************************************************************)
(* Properties of the weekly plan, stated over the trajectory table itself. *)
(***************************************************************************)
\* The sum of f[i] over the i in S between lo and hi, by halves.
RECURSIVE SumBetween(_, _, _, _)
SumBetween(f, S, lo, hi) ==
    IF lo > hi THEN RInt(0)
    ELSE IF lo = hi THEN (IF lo \in S THEN f[lo] ELSE RInt(0))
    ELSE LET mid == (lo + hi) \div 2
         IN  RAdd(SumBetween(f, S, lo, mid), SumBetween(f, S, mid + 1, hi))

\* The sum of f[i] over the set S of indices of the sequence f.
SumOver(f, S) == SumBetween(f, S, 1, Len(f))

\* The rows of the trajectory table of learner sid in domain d that are dated
\* within the lookback window of the current day.
RecentIdx(sid, d) ==
    {i \in 1..Len(DF_TRAJ) :
        /\ DF_TRAJ[i].student_id = sid
        /\ DF_TRAJ[i].domain = d
        /\ DF_TRAJ[i].date >= now - LookbackDays}

RecentMean(sid, d) ==
    RDiv(SumOver([i \in 1..Len(DF_TRAJ) |-> DF_TRAJ[i].micro_score], RecentIdx(sid, d)),
         RInt(Cardinality(RecentIdx(sid, d))))

ActiveDomains(sid) == {d \in DomainSet : RecentIdx(sid, d) # {}}

\* The recent mean of learner sid in each domain of DOMAINS, in that order;
\* 0 stands in for a domain without recent record.
MeansOf(sid) ==
    Rows([i \in 1..Len(DOMAINS) |->
        IF RecentIdx(sid, DOMAINS[i]) = {} THEN RInt(0) ELSE RecentMean(sid, DOMAINS[i])])

Cohort == {DF_STUD[i].student_id : i \in 1..Len(DF_STUD)}

Planned == plan.result.kind = "plan"

PlanFor(priority) == Planned /\ plan.request.priority = priority

\* The hours the plan gives to domain d over the seven days.
DomainHours(d) ==
    LET sched == plan.result.df_sched
    IN  SumOver([i \in 1..Len(sched) |-> sched[i].hours],
                {i \in 1..Len(sched) : sched[i].domain = d})

\* The hours of each domain of DOMAINS, in that order.
HoursByDomain == Rows([i \in 1..Len(DOMAINS) |-> DomainHours(DOMAINS[i])])

TotalHours ==
    LET sched == plan.result.df_sched
    IN  SumOver([i \in 1..Len(sched) |-> sched[i].hours], 1..Len(sched))

\* C1: for a learner of the cohort, whatever the priority and the goal, the
\* request yields a plan, and the hours of all its (domain, day) cells sum to
\* the requested weekly goal.
C1_PlanSumsToGoal ==
    (plan.request.op = "build_agent_plan" /\ plan.request.student_id \in Cohort)
        => Planned /\ TotalHours = plan.request.goal_h

\* A plan over a partly filled window, for goal 10.
C1_Witness ==
    /\ PlanFor("strong")
    /\ plan.request.goal_h = RInt(10)
    /\ now = LookbackDays - 1
    /\ Len(plan.result.df_sched) = 7 * Len(DOMAINS)

\* C2: under 'weak', a domain whose recent mean micro-score is lower gets
\* strictly more weekly hours than a domain whose recent mean is higher.
C2_WeakFavoursLowScores ==
    PlanFor("weak") =>
        LET active == ActiveDomains(plan.request.student_id)
            mean == MeansOf(plan.request.student_id)
            hours == HoursByDomain
        IN  \A x, y \in 1..Len(DOMAINS) :
                (DOMAINS[x] \in active /\ DOMAINS[y] \in active /\ RLt(mean[y], mean[x]))
                    => RLt(hours[x], hours[y])

\* The example of the specification: 0.9 in Algebra against 0.1 in Probability.
C2_Witness ==
    /\ PlanFor("weak")
    /\ {"Algebra", "Probability"} \subseteq ActiveDomains(plan.request.student_id)
    /\ RecentMean(plan.request.student_id, "Algebra") = Rat(9, 10)
    /\ RecentMean(plan.request.student_id, "Probability") = Rat(1, 10)
    /\ RLt(DomainHours("Algebra"), DomainHours("Probability"))

\* C3: under 'balanced', every domain with recent activity gets the same weekly
\* hours, the goal divided by the number of such domains, before and after the
\* day-shaping, and the plan sums to the goal.
C3_BalancedEqualShares ==
    (PlanFor("balanced") /\ ActiveDomains(plan.request.student_id) # {}) =>
        LET active == ActiveDomains(plan.request.student_id)
            share == RDiv(plan.request.goal_h, RInt(Cardinality(active)))
            w == plan.result.weights
        IN  /\ {w[i].domain : i \in 1..Len(w)} = active
            /\ \A i \in 1..Len(w) : w[i].hours = share
            /\ \A d \in active : DomainHours(d) = share
            /\ TotalHours = plan.request.goal_h

\* Scenario D: goal 7 over 5 active domains, 1.4 hours each.
C3_Witness ==
    /\ PlanFor("balanced")
    /\ plan.request.goal_h = RInt(7)
    /\ ActiveDomains(plan.request.student_id) = DomainSet
    /\ \A d \in DomainSet : DomainHours(d) = Rat(14, 10)
    /\ TotalHours = RInt(7)

\* C4: under 'strong', each active domain gets goal * m_d / (sum of m over the
\* active domains), m being the recent mean micro-score; hence a strictly
\* higher recent mean gets strictly more hours.
C4_StrongProportional ==
    (PlanFor("strong") /\ ActiveDomains(plan.request.student_id) # {}) =>
        LET active == ActiveDomains(plan.request.student_id)
            mean == MeansOf(plan.request.student_id)
            hours == HoursByDomain
            total == SumOver(mean, 1..Len(DOMAINS))
        IN  /\ \A x \in 1..Len(DOMAINS) :
                DOMAINS[x] \in active
                    => hours[x] = RDiv(RMul(plan.request.goal_h, mean[x]), total)
            /\ \A x, y \in 1..Len(DOMAINS) :
                (DOMAINS[x] \in active /\ DOMAINS[y] \in active /\ RLt(mean[x], mean[y]))
                    => RLt(hours[x], hours[y])

\* A 'strong' plan over domains with different recent means.
C4_Witness ==
    /\ PlanFor("strong")
    /\ \E x, y \in ActiveDomains(plan.request.student_id) :
        /\ RLt(RecentMean(plan.request.student_id, x),
               RecentMean(plan.request.student_id, y))
        /\ RLt(DomainHours(x), DomainHours(y))

\* C5: when the learner has no trajectory record inside the 7-day window, each
\* domain of the fixed domain set gets the weight 1/5, whatever the priority.
C5_FallbackEqualWeights ==
    (Planned /\ ActiveDomains(plan.request.student_id) = {}) =>
        LET w == plan.result.weights
        IN  /\ Len(w) = Len(DOMAINS)
            /\ {w[i].domain : i \in 1..Len(w)} = DomainSet
            /\ \A i \in 1..Len(w) : w[i].weight = Rat(1, 5)

\* A 'weak' plan asked for once the window holds no record at all.
C5_Witness ==
    /\ PlanFor("weak")
    /\ ActiveDomains(plan.request.student_id) = {}
    /\ \A i \in 1..Len(DF_TRAJ) : DF_TRAJ[i].date < now - LookbackDays
    /\ \A d \in DomainSet : DomainHours(d) = RDiv(plan.request.goal_h, RInt(5))

(***************************************************************************)
(* Properties of the recommendations, stated over the arguments of the     *)
(* call: the learner table, the item bank and the score history.           *)
(***************************************************************************)
Recommended == recs.result.kind = "recs"

RecRows == recs.result.rows

\* The places of RecRows that hold items of domain d.
RowsOf(d) == {i \in 1..Len(RecRows) : RecRows[i].domain = d}

\* The places of the item bank that hold items of domain d.
BankOf(d) == {i \in 1..Len(DF_ITEMS) : DF_ITEMS[i].domain = d}

\* The places of the score history that hold records of learner sid in domain d.
HistoryIdx(sid, d) ==
    {i \in 1..Len(DF_TRAJ) : DF_TRAJ[i].student_id = sid /\ DF_TRAJ[i].domain = d}

Position(order, d) == CHOOSE i \in 1..Len(order) : order[i] = d

\* C6 as stated: the domain groups follow the enumeration order of DOMAINS.
C6_EnumerationOrder ==
    Recommended =>
        \A i, j \in 1..Len(RecRows) :
            i < j => Position(DOMAINS, RecRows[i].domain)
                        <= Position(DOMAINS, RecRows[j].domain)

AlphabeticalDomains == <<"Algebra", "Calculus", "Probability", "Programming", "Statistics">>

\* C6 amended: the domain groups follow the ascending order of the domain
\* names as strings: Algebra, Calculus, Probability, Programming, Statistics.
C6_AlphabeticalOrder ==
    Recommended =>
        \A i, j \in 1..Len(RecRows) :
            i < j => Position(AlphabeticalDomains, RecRows[i].domain)
                        <= Position(AlphabeticalDomains, RecRows[j].domain)

\* Recommendations that hold items of Probability and of Calculus.
C6_Witness ==
    /\ Recommended
    /\ RowsOf("Probability") # {}
    /\ RowsOf("Calculus") # {}
    /\ \A i \in RowsOf("Calculus"), j \in RowsOf("Probability") : i < j

\* C7: the rows returned for a domain are items of that domain of the bank,
\* carry the gap |b - theta_d|, come in ascending gap order, and no item of
\* the domain left out has a strictly smaller gap than a row returned.
C7_ClosestItemsAscending ==
    Recommended =>
        \A d \in DomainSet :
            LET chosen == {RecRows[i].item_id : i \in RowsOf(d)}
            IN  /\ \A i \in RowsOf(d) :
                    /\ \E k \in BankOf(d) :
                        /\ DF_ITEMS[k].item_id = RecRows[i].item_id
                        /\ DF_ITEMS[k].b = RecRows[i].b
                    /\ RecRows[i].gap = RAbs(RSub(RecRows[i].b, RecRows[i].theta_d))
                    /\ \A k \in BankOf(d) :
                        DF_ITEMS[k].item_id \notin chosen
                            => RLe(RecRows[i].gap,
                                   RAbs(RSub(DF_ITEMS[k].b, RecRows[i].theta_d)))
                /\ \A i, j \in RowsOf(d) :
                    i < j => RLe(RecRows[i].gap, RecRows[j].gap)

\* A domain with more items than are returned, of which a later item of the
\* bank is returned and an earlier one is left out.
C7_Witness ==
    /\ Recommended
    /\ \E d \in DomainSet :
        /\ Cardinality(BankOf(d)) > TopK
        /\ \E i \in RowsOf(d), k \in BankOf(d) :
            /\ DF_ITEMS[k].item_id < RecRows[i].item_id
            /\ \A j \in RowsOf(d) : RecRows[j].item_id # DF_ITEMS[k].item_id
            /\ RLt(RecRows[i].gap, RAbs(RSub(DF_ITEMS[k].b, RecRows[i].theta_d)))

\* C8: a call for a learner of the table returns recommendations, and a
\* returned collection holds, for every domain, min(3, number of items of the
\* domain in the bank) items with pairwise different ids.
C8_CountPerDomain ==
    /\ (recs.request.op = "recommend_items" /\ recs.request.student_id \in Cohort)
        => Recommended
    /\ Recommended =>
        \A d \in DomainSet :
            LET n == Cardinality(BankOf(d))
            IN  /\ Cardinality(RowsOf(d)) = (IF n < 3 THEN n ELSE 3)
                /\ Cardinality({RecRows[i].item_id : i \in RowsOf(d)})
                       = Cardinality(RowsOf(d))

\* A bank without items of Algebra and with more than three items of Calculus.
C8_Witness ==
    /\ Recommended
    /\ BankOf("Algebra") = {}
    /\ RowsOf("Algebra") = {}
    /\ Cardinality(BankOf("Calculus")) > 3
    /\ Cardinality(RowsOf("Calculus")) = 3

\* C9: every theta_d attached to a recommended item lies in [-2.5, 2.5].
C9_ThetaBounded ==
    Recommended =>
        \A i \in 1..Len(RecRows) :
            /\ RLe(Rat(-5, 2), RecRows[i].theta_d)
            /\ RLe(RecRows[i].theta_d, Rat(5, 2))

\* Estimates at both ends of the interval: one from a history whose mean is
\* above 1, one from no history and a high ability.
C9_Witness ==
    /\ Recommended
    /\ \E i \in 1..Len(RecRows) :
        /\ RecRows[i].theta_d = Rat(5, 2)
        /\ HistoryIdx(recs.request.student_id, RecRows[i].domain) # {}
        /\ \A k \in HistoryIdx(recs.request.student_id, RecRows[i].domain) :
            RLt(RInt(1), DF_TRAJ[k].micro_score)
    /\ \E i \in 1..Len(RecRows) : RecRows[i].theta_d = Rat(-5, 2)

\* The row of learner sid in the learner table.
LearnerRow(sid) == DF_STUD[CHOOSE i \in 1..Len(DF_STUD) : DF_STUD[i].student_id = sid]

\* 0.7 * ability + 0.3 * affinity, in tenths, brought into [-2.5, 2.5].
ColdStartTheta(sid, d) ==
    LET raw == RAdd(RMul(Rat(7, 10), LearnerRow(sid).ability_g),
                    RMul(Rat(3, 10), LearnerRow(sid).affinity[d]))
    IN  IF RLt(raw, Rat(-5, 2)) THEN Rat(-5, 2)
        ELSE IF RLt(Rat(5, 2), raw) THEN Rat(5, 2)
        ELSE raw

\* C10: for a domain in which the history holds no record of the learner, the
\* estimate is clip(0.7 * ability + 0.3 * affinity, -2.5, 2.5), and the domain
\* gets at most 3 items in ascending gap order.
C10_ColdStartEstimate ==
    Recommended =>
        \A d \in DomainSet :
            HistoryIdx(recs.request.student_id, d) = {} =>
                /\ \A i \in RowsOf(d) :
                    RecRows[i].theta_d = ColdStartTheta(recs.request.student_id, d)
                /\ Cardinality(RowsOf(d)) <= 3
                /\ \A i, j \in RowsOf(d) :
                    i < j => RLe(RecRows[i].gap, RecRows[j].gap)

\* Scenario B: a learner without any record gets items of Algebra, with an
\* estimate that is not clipped and to which ability and affinity both count.
C10_Witness ==
    /\ Recommended
    /\ \A d \in DomainSet : HistoryIdx(recs.request.student_id, d) = {}
    /\ RowsOf("Algebra") # {}
    /\ \A i \in RowsOf("Algebra") : RecRows[i].theta_d = Rat(-1, 4)
    /\ LearnerRow(recs.request.student_id).ability_g = Rat(1, 2)
    /\ LearnerRow(recs.request.student_id).affinity["Algebra"] = RInt(-2)

\* (mean micro-score of the records of learner sid in domain d - 0.5) / 0.2,
\* brought into [-2.5, 2.5].
HistoryTheta(sid, d) ==
    LET idx   == HistoryIdx(sid, d)
        score == [i \in 1..Len(DF_TRAJ) |-> DF_TRAJ[i].micro_score]
        mean  == RDiv(SumOver(score, idx), RInt(Cardinality(idx)))
        raw   == RMul(RSub(mean, Rat(1, 2)), RInt(5))
    IN  IF RLt(raw, Rat(-5, 2)) THEN Rat(-5, 2)
        ELSE IF RLt(Rat(5, 2), raw) THEN Rat(5, 2)
        ELSE raw

\* C11: for a domain in which the score history holds records of the learner,
\* the estimate is clip((mean micro-score - 0.5) / 0.2, -2.5, 2.5), the mean
\* taken over the records of that learner in that domain, whatever their date:
\* it is a function of those records alone, so no other record and neither
\* the ability nor the affinity of the learner changes it.
C11_HistoryEstimate ==
    Recommended =>
        \A d \in DomainSet :
            HistoryIdx(recs.request.student_id, d) # {} =>
                \A i \in RowsOf(d) :
                    RecRows[i].theta_d = HistoryTheta(recs.request.student_id, d)

\* A learner with two records of Algebra, of means 0.3 and 0.6, and a record
\* of Calculus, while another learner has records too: the estimate of
\* Algebra is (0.45 - 0.5) / 0.2, which is not the cold-start estimate.
C11_Witness ==
    /\ Recommended
    /\ recs.request.student_id \in Cohort
    /\ Cardinality(HistoryIdx(recs.request.student_id, "Algebra")) = 2
    /\ HistoryIdx(recs.request.student_id, "Calculus") # {}
    /\ \E other \in Cohort :
        /\ other # recs.request.student_id
        /\ HistoryIdx(other, "Algebra") # {}
    /\ RowsOf("Algebra") # {}
    /\ \A i \in RowsOf("Algebra") : RecRows[i].theta_d = Rat(-1, 4)
    /\ ColdStartTheta(recs.request.student_id, "Algebra") # Rat(-1, 4)

\* C12 as stated: a call that names a learner outside the learner table
\* fails with the lookup error and returns no recommendations, whatever the
\* item bank and the score history hold.
C12_UnknownLearnerFails ==
    (recs.request.op = "recommend_items" /\ recs.request.student_id \notin Cohort)
        => /\ recs.result.kind = "raised"
           /\ recs.result.error = "IndexError"

(***************************************************************************)
(* The callbacks of the first dashboard that answer for a learner:         *)
(* save_api_key, update_learning and generate_assessment, beside           *)
(* build_agent_plan.  Texts are strings.  The chat-completion service is   *)
(* the environment: once called it answers with a content, answers without *)
(* one, fails with an error, or does not answer at all.                    *)
(***************************************************************************)
\* The values of the key input: left empty, or a key.
KeyInputs == {"", "sk-test"}

save_api_key(key) ==
    IF key = "" THEN PyDict({}) ELSE PyDict({<<"api_key", key>>})

\* "api_key" in store
HasKey(store) == \E it \in store.items : it[1] = "api_key"

\* store["api_key"]
StoredKey(store) == (CHOOSE it \in store.items : it[1] = "api_key")[2]

\* not api_store or "api_key" not in api_store or not api_store["api_key"]
NoCredential(store) ==
    \/ store.py = "None"
    \/ store.items = {}
    \/ ~HasKey(store)
    \/ StoredKey(store) = ""

\* str.strip() for blanks.
RECURSIVE LStrip(_)
LStrip(text) ==
    IF Len(text) > 0 /\ SubSeq(text, 1, 1) = " "
    THEN LStrip(SubSeq(text, 2, Len(text)))
    ELSE text

RECURSIVE RStrip(_)
RStrip(text) ==
    IF Len(text) > 0 /\ SubSeq(text, Len(text), Len(text)) = " "
    THEN RStrip(SubSeq(text, 1, Len(text) - 1))
    ELSE text

Strip(text) == RStrip(LStrip(text))

\* The messages str(e) of the errors of the client: no connection, rate
\* limit, and the time limit of the client library where it has one.
ErrorMessages == {"Connection error.", "Rate limit reached.", "Request timed out."}

\* The contents message.content of an answer.
Contents == {" The items match the estimate. ", " ", ""}

\* What chat.completions.create does when it comes back: a response with a
\* content, a response whose content is None, a response with no choice, a
\* response whose message is None, or an exception.
ServiceOutcomes ==
    {[kind |-> "content", text |-> t] : t \in Contents}
        \cup {[kind |-> "content_none", text |-> ""],
              [kind |-> "no_choices",   text |-> ""],
              [kind |-> "message_none", text |-> ""]}
        \cup {[kind |-> "raised", text |-> e] : e \in ErrorMessages}

MissingKeyText ==
    "Enter your OpenAI API key at the top to get an AI-generated explanation for these recommendations."

\* explanation_text of lines 968-983: the stripped content, or the text of
\* the except clause with str(e) of the error raised by the call or by the
\* reading of the response.
ExplanationText(outcome) ==
    CASE outcome.kind = "content" -> Strip(outcome.text)
      [] outcome.kind = "content_none" ->
            "AI explanation could not be retrieved: "
                \o "'NoneType' object has no attribute 'strip'"
      [] outcome.kind = "message_none" ->
            "AI explanation could not be retrieved: "
                \o "'NoneType' object has no attribute 'content'"
      [] outcome.kind = "no_choices" ->
            "AI explanation could not be retrieved: " \o "list index out of range"
      [] outcome.kind = "raised" ->
            "AI explanation could not be retrieved: " \o outcome.text

DateLess(x, y) == x.date < y.date

\* tr of lines 891-893: the records of the learner in the domain, by date.
TrajectoryOf(student_id, dom) ==
    LET Mine(r) == r.student_id = student_id /\ r.domain = dom
    IN  StableSort(SelectRows(DF_TRAJ, Mine), DateLess)

\* update_learning up to the call of the service (lines 888-980): the
\* IndexError of recommend_items leaves the callback; without a key the
\* callback returns the invitation to enter one; with a key the request is
\* sent and the callback waits for chat.completions.create.
UpdateLearning(student_id, dom, ties) ==
    /\ page = PageIdle
    /\ plan = Idle
    /\ LET request == [op |-> "update_learning", student_id |-> student_id, dom |-> dom]
           r == recommend_items(student_id, DF_STUD, DF_ITEMS, DF_TRAJ, ties)
           fig == TrajectoryOf(student_id, dom)
       IN  page' =
             IF r.kind = "raised"
             THEN [request |-> request, phase |-> "returned", result |-> r]
             ELSE IF NoCredential(api_store)
             THEN [request |-> request, phase |-> "returned",
                   result  |-> [kind |-> "outputs", fig |-> fig, table |-> r.rows,
                                label |-> "", explanation |-> MissingKeyText]]
             ELSE [request |-> request, phase |-> "calling",
                   result  |-> [kind |-> "waiting", fig |-> fig, table |-> r.rows,
                                api_key |-> StoredKey(api_store)]]
    /\ UNCHANGED <<DF_STUD, DF_ITEMS, DF_TRAJ, now, recs, plan, api_store,
                   progressVars, idmVars>>

LearningRequest ==
    \E student_id \in 0..N_STUDENTS, dom \in DomainSet, ties \in TieOrders :
        UpdateLearning(student_id, dom, ties)

\* chat.completions.create comes back and update_learning returns (lines
\* 981-989).  Nothing in the callback makes it come back.
ServiceResponds(outcome) ==
    /\ page.request.op = "update_learning"
    /\ page.phase = "calling"
    /\ page' = [page EXCEPT
                  !.phase  = "returned",
                  !.result = [kind |-> "outputs", fig |-> page.result.fig,
                              table |-> page.result.table,
                              label |-> "AI explanation: ",
                              explanation |-> ExplanationText(outcome)]]
    /\ UNCHANGED <<DF_STUD, DF_ITEMS, DF_TRAJ, now, recs, plan, api_store,
                   progressVars, idmVars>>

ServiceStep == \E outcome \in ServiceOutcomes : ServiceResponds(outcome)

\* The values of the slider assess-nq that are tried.
QuestionCounts == {3, 5, 10}

\* generate_assessment taking the first n_q recommended items of any domain.
GenerateAssessment_AnyDomain(student_id, dom, n_q, ties) ==
    /\ page = PageIdle
    /\ plan = Idle
    /\ LET request == [op |-> "generate_assessment", student_id |-> student_id,
                       dom |-> dom, n_q |-> n_q]
           r == recommend_items(student_id, DF_STUD, DF_ITEMS, DF_TRAJ, ties)
           dom_items == HeadRows(HeadRows(r.rows, 2 * n_q), n_q)
           Question(i) == [number |-> i, item_id |-> dom_items[i].item_id,
                           b |-> dom_items[i].b]
       IN  page' =
             IF r.kind = "raised"
             THEN [request |-> request, phase |-> "returned", result |-> r]
             ELSE [request |-> request, phase |-> "returned",
                   result  |-> [kind |-> "questions",
                                questions |-> Rows([i \in 1..Len(dom_items) |->
                                                       Question(i)])]]
    /\ UNCHANGED <<DF_STUD, DF_ITEMS, DF_TRAJ, now, recs, plan, api_store,
                   progressVars, idmVars>>

\* generate_assessment: the recommended items of the domain, at most n_q.
GenerateAssessment(student_id, dom, n_q, ties) ==
    /\ page = PageIdle
    /\ plan = Idle
    /\ LET request == [op |-> "generate_assessment", student_id |-> student_id,
                       dom |-> dom, n_q |-> n_q]
           r == recommend_items(student_id, DF_STUD, DF_ITEMS, DF_TRAJ, ties)
           InDomain(row) == row.domain = dom
           dom_items == HeadRows(HeadRows(SelectRows(r.rows, InDomain), 2 * n_q), n_q)
           Question(i) == [number |-> i, item_id |-> dom_items[i].item_id,
                           b |-> dom_items[i].b]
       IN  page' =
             IF r.kind = "raised"
             THEN [request |-> request, phase |-> "returned", result |-> r]
             ELSE [request |-> request, phase |-> "returned",
                   result  |-> [kind |-> "questions",
                                questions |-> Rows([i \in 1..Len(dom_items) |->
                                                       Question(i)])]]
    /\ UNCHANGED <<DF_STUD, DF_ITEMS, DF_TRAJ, now, recs, plan, api_store,
                   progressVars, idmVars>>

AssessmentRequest ==
    \E student_id \in 0..N_STUDENTS, dom \in DomainSet, n_q \in QuestionCounts,
       ties \in TieOrders :
        GenerateAssessment(student_id, dom, n_q, ties)

SaveApiKey(key) ==
    /\ page = PageIdle
    /\ plan = Idle
    /\ api_store' = save_api_key(key)
    /\ UNCHANGED <<DF_STUD, DF_ITEMS, DF_TRAJ, now, recs, plan, page,
                   progressVars, idmVars>>

SaveKeyRequest == \E key \in KeyInputs : SaveApiKey(key)

\* render_tab(tab): the layout of the chosen tab.  The overview and the
\* analytics tab read the frame of the last seven days; the overview shows
\* int(df7["minutes"].sum()).  The other tabs are fixed layouts.
RenderTab ==
    /\ page = PageIdle
    /\ plan = Idle
    /\ \E tab \in {"tab_home", "tab_learning", "tab_assess", "tab_analytics",
                   "tab_agent", "tab_about"} :
        LET df7 == recent_progress(DF_TRAJ, now, LookbackDays)
            Minutes(row) == RInt(row.minutes)
        IN  page' = [request |-> [op |-> "render_tab", tab |-> tab],
                     phase   |-> "returned",
                     result  |->
                        IF tab = "tab_home"
                        THEN [kind |-> "layout",
                              total_minutes |-> RSum(Column(df7, Minutes)).n]
                        ELSE IF tab = "tab_analytics"
                        THEN [kind |-> "layout", heatmap |-> df7]
                        ELSE [kind |-> "layout"]]
    /\ UNCHANGED <<DF_STUD, DF_ITEMS, DF_TRAJ, now, recs, plan, api_store,
                   progressVars, idmVars>>

\* submit_assessment(n, answers, student_id): the share of the answered
\* questions marked 1, which the page shows as a percentage.  An answer is
\* 1, 0, or -1 for a question left open (None).
SubmitAssessment ==
    /\ page = PageIdle
    /\ plan = Idle
    /\ \E answers \in {<<>>, <<-1, -1, -1>>, <<1, -1, 0>>, <<1, 1, 0>>, <<1, 1, 1>>} :
        LET Answered(a) == a # -1
            answers_clean == SelectSeq(answers, Answered)
            Value(a) == RInt(a)
            score == RMean(Column(answers_clean, Value))
        IN  page' = [request |-> [op |-> "submit_assessment", answers |-> answers],
                     phase   |-> "returned",
                     result  |->
                        IF answers = <<>>
                        THEN [kind |-> "text", text |-> "No answers submitted."]
                        ELSE IF answers_clean = <<>>
                        THEN [kind |-> "text",
                              text |-> "Please answer at least one question."]
                        ELSE [kind |-> "accuracy", score |-> score]]
    /\ UNCHANGED <<DF_STUD, DF_ITEMS, DF_TRAJ, now, recs, plan, api_store,
                   progressVars, idmVars>>

\* The response of a callback of the page leaves the server.
PageReturn ==
    /\ page.phase = "returned"
    /\ page' = PageIdle
    /\ UNCHANGED <<DF_STUD, DF_ITEMS, DF_TRAJ, now, recs, plan, api_store,
                   progressVars, idmVars>>

\* The agent callback with the selection of the learner's records written
\* over the trajectory table instead of into a frame of its own.
AgentCallback_InPlace ==
    /\ page = PageIdle
    /\ plan = Idle
    /\ \E student_id \in 0..N_STUDENTS, priority \in Priorities, goal_h \in GoalVals :
        /\ plan' = [request |-> [op |-> "build_agent_plan", student_id |-> student_id,
                                 priority |-> priority, goal_h |-> goal_h],
                    result  |-> build_agent_plan(DF_STUD, DF_TRAJ, now,
                                                 student_id, priority, goal_h)]
        /\ LET Own(row) == row.student_id = student_id
           IN  DF_TRAJ' = SelectRows(DF_TRAJ, Own)
    /\ UNCHANGED <<DF_STUD, DF_ITEMS, now, recs, pageVars, progressVars, idmVars>>

\* The agent callback, one callback being served at a time.
AgentCallback ==
    /\ page = PageIdle
    /\ AgentRequest

InitDash ==
    \E ld \in [1..N_STUDENTS -> LearnerDraws], td \in [1..N_STUDENTS -> TrajDraws] :
        /\ DF_STUD = simulate_students(ld)
        /\ DF_TRAJ = simulate_trajectories(simulate_students(ld), td, 0, HORIZON_DAYS)
        /\ DF_ITEMS = simulate_item_bank(ItemDraws("blocks", "rising"))
        /\ now = 0
        /\ recs = Idle
        /\ plan = Idle
        /\ InitPage
        /\ InitProgress
        /\ OPENAI_OK = TRUE
        /\ InitStores

NextDash ==
    \/ SaveKeyRequest
    \/ LearningRequest
    \/ ServiceStep
    \/ AssessmentRequest
    \/ RenderTab
    \/ SubmitAssessment
    \/ PageReturn
    \/ AgentCallback
    \/ Return

SpecDash == InitDash /\ [][NextDash]_vars

\* The callback does every step of its own; the service owes no answer.
FairDash ==
    /\ SpecDash
    /\ WF_vars(PageReturn)
    /\ WF_vars(Return)

(***************************************************************************)
(* Properties of the callbacks of the first dashboard.                     *)
(***************************************************************************)
\* update_learning or generate_assessment has returned for a learner that
\* the learner table does not hold.
AbsentLearnerAnswered ==
    /\ page.phase = "returned"
    /\ page.request.student_id \notin Cohort

\* C13 as stated: a callback that names a learner outside the learner table
\* (update_learning, generate_assessment, build_agent_plan) returns a result
\* to its caller and raises no error.
C13_AbsentLearnerPlaceholder ==
    /\ AbsentLearnerAnswered => page.result.kind \in {"outputs", "questions"}
    /\ (plan.request.op = "build_agent_plan" /\ plan.request.student_id \notin Cohort)
        => plan.result.kind = "plan"

\* C14 as stated: while no key is stored, update_learning does not call the
\* chat-completion service, raises no error, and returns the invitation to
\* enter a key, which is not the empty text.
C14_NoCredentialFallback ==
    (page.request.op = "update_learning" /\ NoCredential(api_store)) =>
        /\ page.phase = "returned"
        /\ page.result.kind = "outputs"
        /\ page.result.explanation = MissingKeyText
        /\ page.result.explanation # ""

\* The answers of the service that give no explanation: an error, a response
\* without choice, message or content, a content of blanks only.
FailureOutcomes == {o \in ServiceOutcomes : o.kind # "content" \/ Strip(o.text) = ""}

\* C15 as stated: when the call of the service fails, update_learning
\* returns a text that is not empty and that is the text returned for any
\* other failure.
C15_FixedFallbackText ==
    [][\A failure, other \in FailureOutcomes :
          ServiceResponds(failure) =>
              /\ page'.result.kind = "outputs"
              /\ page'.result.explanation # ""
              /\ page'.result.explanation = ExplanationText(other)]_vars

LogCapacity == 30

\* interval=5_000 of dcc.Interval, in seconds.
IntervalSeconds == 5

\* min(x, 1.0) without the bound.
RMin_Unbounded(x, y) == x

\* min(x, y)
RMin(x, y) == IF RLt(y, x) THEN y ELSE x

\* round(x * 100, 1) of a number x >= 0: the nearest tenth, the even one of
\* two equally near.
RoundPercent(x) ==
    LET t == RMul(x, RInt(1000))
        q == t.n \div t.d
        r == t.n % t.d
    IN  IF 2 * r < t.d THEN Rat(q, 10)
        ELSE IF 2 * r > t.d THEN Rat(q + 1, 10)
        ELSE IF q % 2 = 0 THEN Rat(q, 10)
        ELSE Rat(q + 1, 10)

\* The draws of random.uniform(0.0, 0.03) and random.uniform(0.0, 0.015) of
\* one call: both at their lower end, both at their upper end, and between.
UpdateDraws ==
    { [progress |-> RInt(0),       autonomy |-> RInt(0)],
      [progress |-> Rat(3, 100),   autonomy |-> Rat(15, 1000)],
      [progress |-> Rat(11, 1000), autonomy |-> Rat(123, 10000)] }

\* simulate_student_updates with the new event appended and the first
\* events dropped.
simulate_student_updates_Appended(studs, log, idx, draw, clock) ==
    LET st == studs[idx + 1]
        new_progress == RMin(RAdd(st.progress, draw.progress), RInt(1))
        new_autonomy == RMin(RAdd(st.autonomy, draw.autonomy), RInt(1))
        event == [name |-> st.name, timestamp |-> clock,
                  autonomy |-> RoundPercent(new_autonomy)]
        all == log \o <<event>>
    IN  [students |-> [studs EXCEPT ![idx + 1] =
                          [st EXCEPT !.progress = new_progress,
                                     !.autonomy = new_autonomy]],
         autonomy_log |-> IF Len(all) > 30 THEN Tail(all) ELSE all]

\* simulate_student_updates with the progress drawn added to the next
\* student of the store as well.
simulate_student_updates_Neighbour(studs, log, idx, draw, clock) ==
    LET st == studs[idx + 1]
        new_progress == RMin(RAdd(st.progress, draw.progress), RInt(1))
        new_autonomy == RMin(RAdd(st.autonomy, draw.autonomy), RInt(1))
        event == [name |-> st.name, timestamp |-> clock,
                  autonomy |-> RoundPercent(new_autonomy)]
        next == ((idx + 1) % Len(studs)) + 1
    IN  [students |-> [studs EXCEPT
                          ![idx + 1] = [st EXCEPT !.progress = new_progress,
                                                  !.autonomy = new_autonomy],
                          ![next] = [@ EXCEPT !.progress =
                                        RMin(RAdd(@, draw.progress), RInt(1))]],
         autonomy_log |-> HeadRows(<<event>> \o log, LogCapacity)]

\* simulate_student_updates with the event recording the autonomy the
\* student had before the call.
simulate_student_updates_LogsBefore(studs, log, idx, draw, clock) ==
    LET st == studs[idx + 1]
        new_progress == RMin(RAdd(st.progress, draw.progress), RInt(1))
        new_autonomy == RMin(RAdd(st.autonomy, draw.autonomy), RInt(1))
        event == [name |-> st.name, timestamp |-> clock,
                  autonomy |-> RoundPercent(st.autonomy)]
    IN  [students |-> [studs EXCEPT ![idx + 1] =
                          [st EXCEPT !.progress = new_progress,
                                     !.autonomy = new_autonomy]],
         autonomy_log |-> HeadRows(<<event>> \o log, LogCapacity)]

\* simulate_student_updates(n_intervals, students, autonomy_log) for the
\* index idx = random.randint(0, len(students) - 1), the two uniform draws
\* and the time of the call.
simulate_student_updates(studs, log, idx, draw, clock) ==
    LET st == studs[idx + 1]
        new_progress == RMin(RAdd(st.progress, draw.progress), RInt(1))
        new_autonomy == RMin(RAdd(st.autonomy, draw.autonomy), RInt(1))
        event == [name |-> st.name, timestamp |-> clock,
                  autonomy |-> RoundPercent(new_autonomy)]
    IN  [students |-> [studs EXCEPT ![idx + 1] =
                          [st EXCEPT !.progress = new_progress,
                                     !.autonomy = new_autonomy]],
         autonomy_log |-> HeadRows(<<event>> \o log, LogCapacity)]

\* The number of timer calls explored from a state of Init.
MaxTicks == 3

\* Runs of the timer that lead to the states of Init: none (the layout as
\* loaded), and 29 calls, either each student in turn or the last student
\* every time, with the upper draws.
WarmTicks == {0, LogCapacity - 1}

WarmPatterns == {"in turn", "last"}

UpperDraw == [progress |-> Rat(3, 100), autonomy |-> Rat(15, 1000)]

\* The stores after the first k calls of such a run.
RECURSIVE WarmRun(_, _)
WarmRun(k, pattern) ==
    IF k = 0 THEN [students |-> INITIAL_STUDENTS, autonomy_log |-> <<>>]
    ELSE LET before == WarmRun(k - 1, pattern)
             idx == IF pattern = "last" THEN Len(INITIAL_STUDENTS) - 1
                    ELSE (k - 1) % Len(INITIAL_STUDENTS)
         IN  simulate_student_updates(before.students, before.autonomy_log, idx,
                                      UpperDraw, IntervalSeconds * (k - 1))

InitIDM ==
    \E k \in WarmTicks, pattern \in WarmPatterns :
        /\ students = WarmRun(k, pattern).students
        /\ autonomy_log = WarmRun(k, pattern).autonomy_log
        /\ n_intervals = k
        /\ api_key_data = PyDict({<<"api_key", DEFAULT_OPENAI_API_KEY>>})
        /\ conversation = <<>>
        /\ mentor = PageIdle
        /\ resend = PageIdle
        /\ panel = Idle
        /\ OPENAI_OK = TRUE
        /\ DF_STUD = <<>>
        /\ DF_ITEMS = <<>>
        /\ DF_TRAJ = <<>>
        /\ now = 0
        /\ recs = Idle
        /\ plan = Idle
        /\ InitPage
        /\ InitProgress

\* One call of the timer callback.
SimulateStudentUpdates(idx, draw) ==
    /\ panel = Idle
    /\ \E k \in WarmTicks : k <= n_intervals /\ n_intervals < k + MaxTicks
    /\ LET out == simulate_student_updates(students, autonomy_log, idx, draw,
                                           IntervalSeconds * n_intervals)
       IN  /\ students' = out.students
           /\ autonomy_log' = out.autonomy_log
    /\ n_intervals' = n_intervals + 1
    /\ UNCHANGED <<DF_STUD, DF_ITEMS, DF_TRAJ, now, recs, plan, pageVars, progressVars,
                   OPENAI_OK, api_key_data, conversation, mentor, panel, resend>>

IntervalUpdate ==
    \E idx \in 0..(Len(students) - 1), draw \in UpdateDraws :
        SimulateStudentUpdates(idx, draw)

\* The values of dropdown-student: the ids of the cohort, and 9 for an id
\* that no student has.
StudentIds == {1, 2, 3, 4, 9}

\* show_student_info(student_id, students)
show_student_info(student_id, studs) ==
    LET Mine(r) == r.id = student_id
        found == SelectRows(studs, Mine)
    IN  IF Len(found) = 0
        THEN [kind |-> "text", text |-> "Student not found."]
        ELSE [kind |-> "summary", module |-> found[1].module,
              progress |-> RoundPercent(found[1].progress),
              autonomy |-> RoundPercent(found[1].autonomy)]

ShowStudentInfo(student_id) ==
    /\ panel = Idle
    /\ panel' = [request |-> [op |-> "show_student_info", student_id |-> student_id],
                 result  |-> show_student_info(student_id, students)]
    /\ UNCHANGED <<DF_STUD, DF_ITEMS, DF_TRAJ, now, recs, plan, pageVars, progressVars,
                   OPENAI_OK, api_key_data, students, autonomy_log, n_intervals,
                   conversation, mentor, resend>>

PanelRequest == \E student_id \in StudentIds : ShowStudentInfo(student_id)

\* The panel is drawn.
PanelReturn ==
    /\ panel # Idle
    /\ panel' = Idle
    /\ UNCHANGED <<DF_STUD, DF_ITEMS, DF_TRAJ, now, recs, plan, pageVars, progressVars,
                   OPENAI_OK, api_key_data, students, autonomy_log, n_intervals,
                   conversation, mentor, resend>>

NextIDM == IntervalUpdate \/ PanelRequest \/ PanelReturn

SpecIDM == InitIDM /\ [][NextIDM]_vars

(***************************************************************************)
(* The chat of the second dashboard: save_api_key, converse_with_mentor    *)
(* and safe_openai_call.  A content is a text or None.  The callback       *)
(* returns the conversation, which the browser puts in store-conversation. *)
(***************************************************************************)
PyStr(text) == [py |-> "str", text |-> text]

PyNoneStr == [py |-> "None", text |-> ""]

\* The number of questions asked in a conversation that are explored.
MaxTurns == 2

\* history keeps the last 6 messages of the conversation.
HistoryWindow == 6

\* The values of input-message: None, empty, blank, a question.
UserMessages == {PyNoneStr, PyStr(""), PyStr("  "), PyStr("How do I start?")}

\* The test of the message with text of spaces taken as a question.
Blank_EmptyOnly(user_message) == user_message.py = "None" \/ user_message.text = ""

\* not user_message or user_message.strip() == ""
Blank(user_message) == user_message.py = "None" \/ Strip(user_message.text) = ""

\* The values of slider-autonomy that are tried, one in each range but the
\* last two, and None.
AutonomyInputs == {-1, 10, 40, 80}

\* A missing value of the slider taken as the bottom of the scale.
AutonomyPct_Bottom(value) == IF value = -1 THEN 0 ELSE value

\* if autonomy_pct is None: autonomy_pct = 40, None being -1 here.
AutonomyPct(value) == IF value = -1 THEN 40 ELSE value

AutonomyLevel(autonomy_pct) ==
    IF autonomy_pct < 25 THEN "very_low"
    ELSE IF autonomy_pct < 50 THEN "low"
    ELSE IF autonomy_pct < 75 THEN "medium"
    ELSE "high"

RESOURCES_BY_LEVEL ==
    [level \in {"very_low", "low", "medium", "high"} |->
        CASE level = "very_low" ->
                << "5-minute introductory video about the topic.",
                   "Infographic with basic steps.",
                   "Guided activity with solved examples." >>
          [] level = "low" ->
                << "Short reading with examples.",
                   "Immediate self-assessment quiz.",
                   "Visual summary with key terms." >>
          [] level = "medium" ->
                << "Case applied to a real-world context.",
                   "Problems of medium complexity.",
                   "Collaborative activity with feedback." >>
          [] level = "high" ->
                << "Open project where the student defines the problem.",
                   "Advanced academic reading.",
                   "Self-assessment and metacognition rubric." >>]

\* update_recommendations(autonomy_pct): the texts of the list.
update_recommendations(value) == RESOURCES_BY_LEVEL[AutonomyLevel(AutonomyPct(value))]

\* save_api_key of the second dashboard: {"api_key": api_key_value or ""}
save_mentor_key(api_key_value) == PyDict({<<"api_key", api_key_value>>})

\* api_key_data.get("api_key", "") if api_key_data else ""
MentorKey(store) ==
    IF store.py = "None" \/ store.items = {} \/ ~HasKey(store) THEN ""
    ELSE StoredKey(store)

LibraryMissingText ==
    "The environment does not have the OpenAI library installed. "
        \o "Please install it using 'pip install openai'."

NoKeyText ==
    "No API Key received. Please enter your API Key at the top and resend your question."

NoContentText == "The API responded without content. Try again."

\* What safe_openai_call returns once chat.completions.create has come back
\* (lines 140-148).
SafeCallResult(outcome) ==
    CASE outcome.kind = "content"      -> PyStr(outcome.text)
      [] outcome.kind = "content_none" -> PyNoneStr
      [] outcome.kind = "message_none" -> PyStr(NoContentText)
      [] outcome.kind = "no_choices"   -> PyStr(NoContentText)
      [] outcome.kind = "raised" ->
            PyStr("The digital mentor is active with OpenAI, but the call failed.\n"
                    \o "Details: " \o outcome.text \o "\n"
                    \o "You can try again or check your key.")

\* The part of the system instruction that depends on the learner (lines
\* 638-686): the texts of an unknown learner are placeholders.
MentorContext(student_id, autonomy_pct, studs, current_resources) ==
    LET Mine(r) == r.id = student_id
        found == SelectRows(studs, Mine)
    IN  [level         |-> AutonomyLevel(autonomy_pct),
         module_txt    |-> IF Len(found) > 0 THEN found[1].module
                           ELSE "unidentified module",
         progress_txt  |-> IF Len(found) > 0
                           THEN [percent |-> RoundPercent(found[1].progress)]
                           ELSE [text |-> "unknown"],
         autonomy_txt  |-> IF Len(found) > 0
                           THEN [percent |-> RoundPercent(found[1].autonomy)]
                           ELSE [percent |-> RInt(autonomy_pct)],
         resources     |-> current_resources]

Message(role, content, clock) == [role |-> role, content |-> content, timestamp |-> clock]

\* current_conversation[-6:]
LastMessages(conv) ==
    IF Len(conv) <= HistoryWindow THEN conv
    ELSE SubSeq(conv, Len(conv) - HistoryWindow + 1, Len(conv))

\* converse_with_mentor up to the call of the service: a blank message
\* returns the conversation as it is; without the library or without a key
\* safe_openai_call returns its text at once and the callback returns the
\* conversation with the question and that text; otherwise the request is
\* sent and the callback waits.
ConverseWithMentor(user_message, student_id, slider) ==
    /\ mentor = PageIdle
    /\ resend = PageIdle
    /\ Len(conversation) < 2 * MaxTurns
    /\ LET request == [op |-> "converse_with_mentor", student_id |-> student_id,
                       user_message |-> user_message, autonomy_pct |-> slider]
           clock   == IntervalSeconds * n_intervals
           asked   == Append(conversation, Message("user", user_message, clock))
           context == MentorContext(student_id, AutonomyPct(slider), students,
                                    update_recommendations(slider))
           api_key == MentorKey(api_key_data)
           Answered(text) == Append(asked, Message("assistant", PyStr(text), clock))
       IN  IF Blank(user_message)
           THEN /\ mentor' = [request |-> request, phase |-> "returned",
                              result  |-> [kind |-> "conversation", context |-> context]]
                /\ UNCHANGED conversation
           ELSE IF ~OPENAI_OK
           THEN /\ mentor' = [request |-> request, phase |-> "returned",
                              result  |-> [kind |-> "conversation", context |-> context]]
                /\ conversation' = Answered(LibraryMissingText)
           ELSE IF api_key = ""
           THEN /\ mentor' = [request |-> request, phase |-> "returned",
                              result  |-> [kind |-> "conversation", context |-> context]]
                /\ conversation' = Answered(NoKeyText)
           ELSE /\ mentor' = [request |-> request, phase |-> "calling",
                              result  |-> [kind |-> "waiting", context |-> context,
                                           history |-> LastMessages(asked),
                                           asked |-> asked]]
                /\ UNCHANGED conversation
    /\ UNCHANGED <<DF_STUD, DF_ITEMS, DF_TRAJ, now, recs, plan, pageVars, progressVars,
                   OPENAI_OK, api_key_data, students, autonomy_log, n_intervals, panel,
                   resend>>

MentorRequest ==
    \E user_message \in UserMessages, student_id \in StudentIds, slider \in AutonomyInputs :
        ConverseWithMentor(user_message, student_id, slider)

\* chat.completions.create comes back, safe_openai_call returns and
\* converse_with_mentor appends the reply (lines 140-148 and 708-716).
MentorServiceResponds(outcome) ==
    /\ mentor.phase = "calling"
    /\ conversation' =
          Append(mentor.result.asked,
                 Message("assistant", SafeCallResult(outcome), IntervalSeconds * n_intervals))
    /\ mentor' = [mentor EXCEPT
                    !.phase  = "returned",
                    !.result = [kind |-> "conversation",
                                context |-> mentor.result.context]]
    /\ UNCHANGED <<DF_STUD, DF_ITEMS, DF_TRAJ, now, recs, plan, pageVars, progressVars,
                   OPENAI_OK, api_key_data, students, autonomy_log, n_intervals, panel,
                   resend>>

MentorServiceStep == \E outcome \in ServiceOutcomes : MentorServiceResponds(outcome)

MentorReturn ==
    /\ mentor.phase = "returned"
    /\ mentor' = PageIdle
    /\ UNCHANGED <<DF_STUD, DF_ITEMS, DF_TRAJ, now, recs, plan, pageVars, progressVars,
                   OPENAI_OK, api_key_data, students, autonomy_log, n_intervals,
                   conversation, panel, resend>>

SaveMentorKey(api_key_value) ==
    /\ mentor = PageIdle
    /\ resend = PageIdle
    /\ api_key_data' = save_mentor_key(api_key_value)
    /\ UNCHANGED <<DF_STUD, DF_ITEMS, DF_TRAJ, now, recs, plan, pageVars, progressVars,
                   OPENAI_OK, students, autonomy_log, n_intervals, conversation,
                   mentor, panel, resend>>

MentorKeyRequest == \E api_key_value \in KeyInputs : SaveMentorKey(api_key_value)

\* The layout as loaded, in a build with the openai package and in one
\* without it.
InitMentor ==
    /\ OPENAI_OK \in BOOLEAN
    /\ InitStores
    /\ DF_STUD = <<>>
    /\ DF_ITEMS = <<>>
    /\ DF_TRAJ = <<>>
    /\ now = 0
    /\ recs = Idle
    /\ plan = Idle
    /\ InitPage
    /\ InitProgress

NextMentor ==
    \/ MentorKeyRequest
    \/ MentorRequest
    \/ MentorServiceStep
    \/ MentorReturn
    \/ PanelRequest
    \/ PanelReturn

SpecMentor == InitMentor /\ [][NextMentor]_vars

(***************************************************************************)
(* Two sends of the chat that overlap.  The page passes the conversation   *)
(* store to the callback as State: a send issued while the send before it  *)
(* waits for the service is given the store as it is then, without the     *)
(* question of the first, and each of the two writes the list it returns   *)
(* to the store when it returns, in either order.                          *)
(***************************************************************************)
\* converse_with_mentor for a send issued while the first is being served,
\* with the controls of the page as they were for the first.  The library
\* and the key are there, since the first send is with the service.
ResendToMentor ==
    /\ mentor.phase = "calling"
    /\ resend = PageIdle
    /\ Len(conversation) < 2 * MaxTurns
    /\ \E user_message \in {PyStr(" "), PyStr("And then?")} :
        LET request == [mentor.request EXCEPT !.user_message = user_message]
            clock   == IntervalSeconds * n_intervals
            asked   == Append(conversation, Message("user", user_message, clock))
            context == MentorContext(request.student_id,
                                     AutonomyPct(request.autonomy_pct), students,
                                     update_recommendations(request.autonomy_pct))
        IN  IF Blank(user_message)
            THEN resend' = [request |-> request, phase |-> "returned",
                            result  |-> [kind |-> "conversation", context |-> context]]
            ELSE resend' = [request |-> request, phase |-> "calling",
                            result  |-> [kind |-> "waiting", context |-> context,
                                         history |-> LastMessages(asked),
                                         asked |-> asked]]
    /\ UNCHANGED <<DF_STUD, DF_ITEMS, DF_TRAJ, now, recs, plan, pageVars, progressVars,
                   OPENAI_OK, api_key_data, students, autonomy_log, n_intervals,
                   conversation, mentor, panel>>

\* The service answers the later send, which appends the reply to the list
\* it was given and returns it to the store.
ResendServiceResponds ==
    /\ resend.phase = "calling"
    /\ \E outcome \in ServiceOutcomes :
        conversation' =
            Append(resend.result.asked,
                   Message("assistant", SafeCallResult(outcome),
                           IntervalSeconds * n_intervals))
    /\ resend' = [resend EXCEPT
                    !.phase  = "returned",
                    !.result = [kind |-> "conversation",
                                context |-> resend.result.context]]
    /\ UNCHANGED <<DF_STUD, DF_ITEMS, DF_TRAJ, now, recs, plan, pageVars, progressVars,
                   OPENAI_OK, api_key_data, students, autonomy_log, n_intervals,
                   mentor, panel>>

ResendReturn ==
    /\ resend.phase = "returned"
    /\ resend' = PageIdle
    /\ UNCHANGED <<DF_STUD, DF_ITEMS, DF_TRAJ, now, recs, plan, pageVars, progressVars,
                   OPENAI_OK, api_key_data, students, autonomy_log, n_intervals,
                   conversation, mentor, panel>>

NextOverlap ==
    \/ MentorKeyRequest
    \/ MentorRequest
    \/ MentorServiceStep
    \/ MentorReturn
    \/ ResendToMentor
    \/ ResendServiceResponds
    \/ ResendReturn

SpecOverlap == InitMentor /\ [][NextOverlap]_vars

\* The chat does every step of its own; the service owes no answer.
FairMentor ==
    /\ SpecMentor
    /\ WF_vars(MentorReturn)
    /\ WF_vars(PanelReturn)

(***************************************************************************)
(* Properties of the timer callback of the second dashboard.               *)
(***************************************************************************)
\* C17: the autonomy log never holds more than 30 events and lists them
\* newest first; a call of the timer callback puts its event in front of the
\* events it found, in their order, and leaves out the last of them, the
\* oldest, exactly when it found 30.
C17_BoundedNewestFirst ==
    /\ [](/\ Len(autonomy_log) <= 30
          /\ \A i, j \in 1..Len(autonomy_log) :
                i < j => autonomy_log[i].timestamp > autonomy_log[j].timestamp)
    /\ [][n_intervals' # n_intervals =>
            /\ Len(autonomy_log') =
                  (IF Len(autonomy_log) = 30 THEN 30 ELSE Len(autonomy_log) + 1)
            /\ autonomy_log'[1].timestamp = IntervalSeconds * n_intervals
            /\ Tail(autonomy_log') = SubSeq(autonomy_log, 1, Len(autonomy_log') - 1)]_vars

\* The 32nd call has returned: the log holds 30 events, the events of the
\* first two calls are gone and the event of the third is the last.
C17_Witness ==
    /\ n_intervals = 32
    /\ Len(autonomy_log) = 30
    /\ autonomy_log[30].timestamp = 2 * IntervalSeconds
    /\ autonomy_log[1].timestamp = 31 * IntervalSeconds

\* C18: after any calls of the timer callback from the initial cohort, the
\* progress and the autonomy of every student lie in [0, 1].
C18_UnitInterval ==
    \A i \in 1..Len(students) :
        /\ RLe(RInt(0), students[i].progress)
        /\ RLe(students[i].progress, RInt(1))
        /\ RLe(RInt(0), students[i].autonomy)
        /\ RLe(students[i].autonomy, RInt(1))

\* Calls have brought a student to progress 1 and autonomy 1, and the last
\* call, whose event heads the log, was for that student.
C18_Witness ==
    /\ n_intervals > LogCapacity
    /\ \E i \in 1..Len(students) :
        /\ students[i].progress = RInt(1)
        /\ students[i].autonomy = RInt(1)
        /\ INITIAL_STUDENTS[i].progress # RInt(1)
        /\ autonomy_log[1].name = students[i].name
        /\ autonomy_log[1].autonomy = RInt(100)

(***************************************************************************)
(* recent_progress as a function of its arguments and of the day of the    *)
(* call, datetime.now().date().  The trajectory table is one that the      *)
(* generators make or any table of dated records; agg holds the frame      *)
(* returned by the latest call and agg_prev the frame of the call before.  *)
(***************************************************************************)
\* The window lengths of the calls: the week of the callbacks, and three
\* weeks.
WindowDays == {LookbackDays, 21}

InitAgg ==
    /\ DF_STUD = simulate_students([i \in 1..N_STUDENTS |->
                      [ability_g |-> RInt(0), engagement |-> Rat(3, 10),
                       affinity |-> AffinityFlat]])
    /\ \/ \E td \in [1..N_STUDENTS -> TrajDraws] :
            DF_TRAJ = simulate_trajectories(DF_STUD, td, 0, HORIZON_DAYS)
       \/ \E hp \in [1..N_STUDENTS -> HistoryPatterns] :
            DF_TRAJ = Concat(Rows([i \in 1..N_STUDENTS |-> HistoryOf(i - 1, hp[i])]))
    /\ DF_ITEMS = <<>>
    /\ now = 0
    /\ recs = Idle
    /\ plan = Idle
    /\ InitPage
    /\ InitProgress
    /\ OPENAI_OK = TRUE
    /\ InitStores

\* One call recent_progress(DF_TRAJ, days=window) on the day now.
RecentProgress(window) ==
    /\ agg' = [request |-> [op |-> "recent_progress", window |-> window, today |-> now],
               result  |-> [kind |-> "frame",
                            rows |-> recent_progress(DF_TRAJ, now, window)]]
    /\ agg_prev' = agg
    /\ UNCHANGED <<DF_STUD, DF_ITEMS, DF_TRAJ, now, recs, plan, pageVars, idmVars>>

ProgressRequest == \E window \in WindowDays : RecentProgress(window)

NextAgg == Tick \/ ProgressRequest

SpecAgg == InitAgg /\ [][NextAgg]_vars

(***************************************************************************)
(* Properties of recent_progress.                                          *)
(***************************************************************************)
\* The places of the trajectory table that hold the records of learner sid
\* in domain d dated within the window of the latest call.
WindowIdx(sid, d) ==
    {i \in 1..Len(DF_TRAJ) :
        /\ DF_TRAJ[i].student_id = sid
        /\ DF_TRAJ[i].domain = d
        /\ DF_TRAJ[i].date >= agg.request.today - agg.request.window}

\* The places of the returned frame that hold a row of learner sid in domain d.
AggRowsOf(sid, d) ==
    {k \in 1..Len(agg.result.rows) :
        /\ agg.result.rows[k].student_id = sid
        /\ agg.result.rows[k].domain = d}

\* C19: the frame returned by recent_progress holds one row for each pair
\* (learner, domain) with a record dated within the window and no row for
\* any other pair; the row holds the sum of the minutes and the mean of the
\* micro-scores of the records of the pair within the window.
C19_OneRowPerObservedPair ==
    agg # Idle =>
        LET minutes == [i \in 1..Len(DF_TRAJ) |-> RInt(DF_TRAJ[i].minutes)]
            score   == [i \in 1..Len(DF_TRAJ) |-> DF_TRAJ[i].micro_score]
        IN  \A sid \in 0..N_STUDENTS, d \in DomainSet :
                LET idx == WindowIdx(sid, d)
                IN  /\ Cardinality(AggRowsOf(sid, d)) = (IF idx = {} THEN 0 ELSE 1)
                    /\ \A k \in AggRowsOf(sid, d) :
                        /\ RInt(agg.result.rows[k].minutes) = SumOver(minutes, idx)
                        /\ agg.result.rows[k].micro_mean
                              = RDiv(SumOver(score, idx), RInt(Cardinality(idx)))

\* A call whose window holds one of the two records of a learner in Algebra
\* and none of the learner's records in Calculus: the frame has the row of
\* Algebra, with the minutes of that one record, and no row of Calculus.
C19_Witness ==
    /\ agg # Idle
    /\ \E sid \in Cohort :
        /\ Cardinality(HistoryIdx(sid, "Algebra")) = 2
        /\ Cardinality(WindowIdx(sid, "Algebra")) = 1
        /\ Cardinality(AggRowsOf(sid, "Algebra")) = 1
        /\ HistoryIdx(sid, "Calculus") # {}
        /\ WindowIdx(sid, "Calculus") = {}
        /\ AggRowsOf(sid, "Calculus") = {}

\* C20 as stated: two calls of recent_progress with the same trajectory
\* table and the same window length return the same frame, whenever they
\* are made.  The table never changes, so the two latest calls have the same
\* table.
C20_SameFrameWheneverCalled ==
    (agg # Idle /\ agg_prev # Idle /\ agg.request.window = agg_prev.request.window)
        => agg.result = agg_prev.result

(***************************************************************************)
(* p_success, the probability that a learner of estimate theta solves an   *)
(* item of discrimination a and difficulty b, as a function of its         *)
(* arguments.  recommend_items calls it with the columns a and b of the    *)
(* items of one domain; here one call is one item against a column of      *)
(* estimates, and recs holds the call and the column it returns.           *)
(***************************************************************************)
\* np.exp at the multiples of 1/20 from 0 to 9.9, to four significant
\* digits, as numerator and denominator.
ExpTable ==
    <<
       <<1000, 1000>>, <<1051, 1000>>, <<1105, 1000>>, <<1162, 1000>>, <<1221, 1000>>, <<1284, 1000>>,
       <<1350, 1000>>, <<1419, 1000>>, <<1492, 1000>>, <<1568, 1000>>, <<1649, 1000>>, <<1733, 1000>>,
       <<1822, 1000>>, <<1916, 1000>>, <<2014, 1000>>, <<2117, 1000>>, <<2226, 1000>>, <<2340, 1000>>,
       <<2460, 1000>>, <<2586, 1000>>, <<2718, 1000>>, <<2858, 1000>>, <<3004, 1000>>, <<3158, 1000>>,
       <<3320, 1000>>, <<3490, 1000>>, <<3669, 1000>>, <<3857, 1000>>, <<4055, 1000>>, <<4263, 1000>>,
       <<4482, 1000>>, <<4711, 1000>>, <<4953, 1000>>, <<5207, 1000>>, <<5474, 1000>>, <<5755, 1000>>,
       <<6050, 1000>>, <<6360, 1000>>, <<6686, 1000>>, <<7029, 1000>>, <<7389, 1000>>, <<7768, 1000>>,
       <<8166, 1000>>, <<8585, 1000>>, <<9025, 1000>>, <<9488, 1000>>, <<9974, 1000>>, <<1049, 100>>,
       <<1102, 100>>, <<1159, 100>>, <<1218, 100>>, <<1281, 100>>, <<1346, 100>>, <<1415, 100>>,
       <<1488, 100>>, <<1564, 100>>, <<1644, 100>>, <<1729, 100>>, <<1817, 100>>, <<1911, 100>>,
       <<2009, 100>>, <<2112, 100>>, <<2220, 100>>, <<2334, 100>>, <<2453, 100>>, <<2579, 100>>,
       <<2711, 100>>, <<2850, 100>>, <<2996, 100>>, <<3150, 100>>, <<3312, 100>>, <<3481, 100>>,
       <<3660, 100>>, <<3847, 100>>, <<4045, 100>>, <<4252, 100>>, <<4470, 100>>, <<4699, 100>>,
       <<4940, 100>>, <<5194, 100>>, <<5460, 100>>, <<5740, 100>>, <<6034, 100>>, <<6343, 100>>,
       <<6669, 100>>, <<7011, 100>>, <<7370, 100>>, <<7748, 100>>, <<8145, 100>>, <<8563, 100>>,
       <<9002, 100>>, <<9463, 100>>, <<9948, 100>>, <<1046, 10>>, <<1099, 10>>, <<1156, 10>>,
       <<1215, 10>>, <<1277, 10>>, <<1343, 10>>, <<1412, 10>>, <<1484, 10>>, <<1560, 10>>,
       <<1640, 10>>, <<1724, 10>>, <<1813, 10>>, <<1906, 10>>, <<2003, 10>>, <<2106, 10>>,
       <<2214, 10>>, <<2328, 10>>, <<2447, 10>>, <<2572, 10>>, <<2704, 10>>, <<2843, 10>>,
       <<2989, 10>>, <<3142, 10>>, <<3303, 10>>, <<3472, 10>>, <<3650, 10>>, <<3838, 10>>,
       <<4034, 10>>, <<4241, 10>>, <<4459, 10>>, <<4687, 10>>, <<4927, 10>>, <<5180, 10>>,
       <<5446, 10>>, <<5725, 10>>, <<6018, 10>>, <<6327, 10>>, <<6651, 10>>, <<6992, 10>>,
       <<7351, 10>>, <<7728, 10>>, <<8124, 10>>, <<8541, 10>>, <<8978, 10>>, <<9439, 10>>,
       <<9923, 10>>, <<1043, 1>>, <<1097, 1>>, <<1153, 1>>, <<1212, 1>>, <<1274, 1>>,
       <<1339, 1>>, <<1408, 1>>, <<1480, 1>>, <<1556, 1>>, <<1636, 1>>, <<1720, 1>>,
       <<1808, 1>>, <<1901, 1>>, <<1998, 1>>, <<2101, 1>>, <<2208, 1>>, <<2322, 1>>,
       <<2441, 1>>, <<2566, 1>>, <<2697, 1>>, <<2836, 1>>, <<2981, 1>>, <<3134, 1>>,
       <<3294, 1>>, <<3463, 1>>, <<3641, 1>>, <<3828, 1>>, <<4024, 1>>, <<4230, 1>>,
       <<4447, 1>>, <<4675, 1>>, <<4915, 1>>, <<5167, 1>>, <<5432, 1>>, <<5710, 1>>,
       <<6003, 1>>, <<6311, 1>>, <<6634, 1>>, <<6974, 1>>, <<7332, 1>>, <<7708, 1>>,
       <<8103, 1>>, <<8519, 1>>, <<8955, 1>>, <<9414, 1>>, <<9897, 1>>, <<10400, 1>>,
       <<10940, 1>>, <<11500, 1>>, <<12090, 1>>, <<12710, 1>>, <<13360, 1>>, <<14040, 1>>,
       <<14760, 1>>, <<15520, 1>>, <<16320, 1>>, <<17150, 1>>, <<18030, 1>>, <<18960, 1>>,
       <<19930, 1>>
    >>

\* np.exp(x) for x a multiple of 1/20 of magnitude at most 9.9; the value
\* at a negative argument is the reciprocal of the value at its magnitude.
np_exp(x) ==
    LET k == (Abs(x.n) * 20) \div x.d
        e == Rat(ExpTable[k + 1][1], ExpTable[k + 1][2])
    IN  IF x.n >= 0 THEN e ELSE RDiv(RInt(1), e)

\* The curve with the sign of the exponent lost: it falls as theta rises.
p_success_Falling(a, b, theta) ==
    RDiv(RInt(1), RAdd(RInt(1), np_exp(RMul(a, RSub(theta, b)))))

p_success(a, b, theta) ==
    RDiv(RInt(1), RAdd(RInt(1), np_exp(RMul(RNeg(a), RSub(theta, b)))))

\* The estimates, clipped to ThetaMin..ThetaMax, in halves and ascending.
ThetaGrid == [i \in 1..11 |-> Rat(i - 6, 2)]

InitScore ==
    /\ DF_STUD = <<>>
    /\ DF_ITEMS = <<>>
    /\ DF_TRAJ = <<>>
    /\ now = 0
    /\ recs = Idle
    /\ plan = Idle
    /\ InitPage
    /\ InitProgress
    /\ OPENAI_OK = TRUE
    /\ InitStores

\* One call p_success(a, b, theta) with theta the column of the estimates.
PSuccess(a, b) ==
    /\ recs = Idle
    /\ plan = Idle
    /\ recs' = [request |-> [op |-> "p_success", a |-> a, b |-> b, theta |-> ThetaGrid],
                result  |-> [kind |-> "column",
                             values |-> [i \in 1..Len(ThetaGrid) |->
                                            p_success(a, b, ThetaGrid[i])]]]
    /\ UNCHANGED <<DF_STUD, DF_ITEMS, DF_TRAJ, now, plan, pageVars, progressVars, idmVars>>

\* The items: discriminations as the item bank holds them, np.clip(., 0.6,
\* 1.8), in tenths; difficulties, draws of normal(0, 1), in halves.
ScoreRequest ==
    \E a \in {Rat(i, 10) : i \in 6..18}, b \in {Rat(i, 2) : i \in -6..6} :
        PSuccess(a, b)

NextScore == ScoreRequest \/ Return

SpecScore == InitScore /\ [][NextScore]_vars

\* C21: for every discrimination a > 0, difficulty b and estimate theta of
\* the ranges of the generators, p_success lies strictly between 0 and 1,
\* rises strictly with theta, and is 1/2 where theta = b.
C21_LogisticCurve ==
    recs.request.op = "p_success" =>
        LET p == recs.result.values
            theta == recs.request.theta
        IN  /\ Len(p) = Len(theta)
            /\ \A i \in 1..Len(p) :
                /\ RLt(RInt(0), p[i])
                /\ RLt(p[i], RInt(1))
                /\ theta[i] = recs.request.b => p[i] = Rat(1, 2)
            /\ \A i, j \in 1..Len(p) :
                RLt(theta[i], theta[j]) => RLt(p[i], p[j])

\* The steepest item at the hardest difficulty an estimate can equal: the
\* curve starts below 1/1000 and reaches 1/2 at its last place.
C21_Witness ==
    /\ recs.request.op = "p_success"
    /\ recs.request.a = Rat(18, 10)
    /\ recs.request.b = ThetaGrid[Len(ThetaGrid)]
    /\ RLt(recs.result.values[1], Rat(1, 1000))
    /\ recs.result.values[Len(ThetaGrid)] = Rat(1, 2)

(***************************************************************************)
(* The tables of the first dashboard after startup.                        *)
(***************************************************************************)
\* C22: no operation of the first dashboard after startup (render_tab,
\* update_learning, generate_assessment, submit_assessment,
\* build_agent_plan, save_api_key, and recommend_items and recent_progress
\* within them) changes DF_STUD, DF_ITEMS or DF_TRAJ.
C22_TablesNeverChange ==
    [][DF_STUD' = DF_STUD /\ DF_ITEMS' = DF_ITEMS /\ DF_TRAJ' = DF_TRAJ]_vars

\* The agent callback has built the plan of one learner from a trajectory
\* table that holds the records of another learner too, and the table still
\* holds them.
C22_Witness ==
    /\ Planned
    /\ plan.result.df_sched # <<>>
    /\ \E i \in 1..Len(DF_TRAJ) : DF_TRAJ[i].student_id # plan.request.student_id

(***************************************************************************)
(* Properties of the chat of the second dashboard.                         *)
(***************************************************************************)
\* C23: update_recommendations and converse_with_mentor given no autonomy
\* value behave as for the value 40: the level is "low", the resources are
\* the three of that level, the instruction is the one of that level and of
\* the learner as for 40, and the callback does not fail.
C23_MissingAutonomyIsForty ==
    (mentor.request.op = "converse_with_mentor" /\ mentor.request.autonomy_pct = -1) =>
        /\ mentor.result.kind \in {"conversation", "waiting"}
        /\ mentor.result.context.level = "low"
        /\ mentor.result.context.resources = RESOURCES_BY_LEVEL["low"]
        /\ Len(mentor.result.context.resources) = 3
        /\ mentor.result.context
              = MentorContext(mentor.request.student_id, 40, students,
                              update_recommendations(40))

\* A question sent with no autonomy value for a learner the store does not
\* hold has been answered: the instruction gives the autonomy as 40.
C23_Witness ==
    /\ mentor.request.op = "converse_with_mentor"
    /\ mentor.request.autonomy_pct = -1
    /\ mentor.phase = "returned"
    /\ \A i \in 1..Len(students) : students[i].id # mentor.request.student_id
    /\ mentor.result.context.autonomy_txt = [percent |-> RInt(40)]
    /\ Len(conversation) = 2

(***************************************************************************)
(* Properties of the students store under the timer.                       *)
(***************************************************************************)
\* The places of the store whose student a step changes.
ChangedStudents == {i \in 1..Len(students) : students'[i] # students[i]}

\* What a call of the timer leaves as it was: the number and the order of
\* the students, their id, name, module and difficulty; and no progress and
\* no autonomy decreases.
TickFrame ==
    /\ Len(students') = Len(students)
    /\ \A i \in 1..Len(students) :
        /\ students'[i].id = students[i].id
        /\ students'[i].name = students[i].name
        /\ students'[i].module = students[i].module
        /\ students'[i].difficulty = students[i].difficulty
        /\ RLe(students[i].progress, students'[i].progress)
        /\ RLe(students[i].autonomy, students'[i].autonomy)

\* C24 as stated: each call of simulate_student_updates changes exactly one
\* student, only in progress and autonomy, neither of which decreases; the
\* other fields, the other students, their number and order stay.
C24_ExactlyOneStudentChanges ==
    [][n_intervals' # n_intervals =>
          (TickFrame /\ Cardinality(ChangedStudents) = 1)]_vars

\* C24 amended: each call of simulate_student_updates changes at most one
\* student (none when both draws are zero or the student picked is at 1.0 in
\* both fields), only in progress and autonomy, neither of which decreases;
\* the other fields, the other students, their number and order stay.
C24_AtMostOneStudentChanges ==
    [][n_intervals' # n_intervals =>
          (TickFrame /\ Cardinality(ChangedStudents) <= 1)]_vars

\* After the first call one student has gained progress and autonomy and
\* the others are as loaded.
C24_Witness ==
    /\ n_intervals = 1
    /\ \E i \in 1..Len(students) :
        /\ RLt(INITIAL_STUDENTS[i].progress, students[i].progress)
        /\ RLt(INITIAL_STUDENTS[i].autonomy, students[i].autonomy)
        /\ \A j \in 1..Len(students) : j # i => students[j] = INITIAL_STUDENTS[j]

(***************************************************************************)
(* update_autonomy_history(log, window, selected_student_id): the line     *)
(* chart of the last events of the log.  The callback is run for the       *)
(* stores left by runs of the timer; panel holds its request and the       *)
(* figure it returns.                                                      *)
(***************************************************************************)
PyFloat(x) == [py |-> "float", value |-> x]

\* int(v) of a string, a float or None: the integer, or the exception.  A
\* string is an integer literal when, stripped, it is an optional sign and
\* decimal digits; a float is truncated toward zero; None raises.
py_int(v) ==
    LET DigitOf(c) ==
            CASE c = "0" -> 0 [] c = "1" -> 1 [] c = "2" -> 2 [] c = "3" -> 3
              [] c = "4" -> 4 [] c = "5" -> 5 [] c = "6" -> 6 [] c = "7" -> 7
              [] c = "8" -> 8 [] c = "9" -> 9 [] OTHER -> -1
        RECURSIVE ValueOf(_)
        ValueOf(s) ==
            IF s = "" THEN 0
            ELSE 10 * ValueOf(SubSeq(s, 1, Len(s) - 1))
                    + DigitOf(SubSeq(s, Len(s), Len(s)))
        AllDigits(s) ==
            /\ s # ""
            /\ \A i \in 1..Len(s) : DigitOf(SubSeq(s, i, i)) >= 0
        Signed(s) == Len(s) > 0 /\ SubSeq(s, 1, 1) \in {"-", "+"}
        Parse(s) ==
            LET body == IF Signed(s) THEN SubSeq(s, 2, Len(s)) ELSE s
            IN  IF ~AllDigits(body) THEN [kind |-> "raised", value |-> 0]
                ELSE [kind |-> "int",
                      value |-> IF Signed(s) /\ SubSeq(s, 1, 1) = "-"
                                THEN -ValueOf(body) ELSE ValueOf(body)]
    IN  CASE v.py = "str"   -> Parse(Strip(v.text))
          [] v.py = "float" ->
                [kind |-> "int",
                 value |-> IF v.value.n >= 0 THEN v.value.n \div v.value.d
                           ELSE -((-v.value.n) \div v.value.d)]
          [] OTHER -> [kind |-> "raised", value |-> 0]

\* update_autonomy_history with the events left newest first.
update_autonomy_history_NewestFirst(log, window, selected_student_id) ==
    LET parsed == py_int(window)
        w == IF parsed.kind = "raised" THEN 10 ELSE parsed.value
        data == SubSeq(log, 1, IF w >= 0 THEN (IF Len(log) < w THEN Len(log) ELSE w)
                                 ELSE Len(log) + w)
        Autonomy(e) == e.autonomy
    IN  IF Len(log) = 0 THEN [kind |-> "figure", matches |-> 0, x |-> <<>>, y |-> <<>>]
        ELSE [kind |-> "figure", matches |-> 0,
              x |-> [i \in 1..Len(data) |-> i] \o <<>>, y |-> Column(data, Autonomy)]

\* The figure: x the places 1..len(data), y the autonomy of the events of
\* data, the first `window` events of the log taken in reverse.  matches is
\* the number of events that the test on the name selects, which the figure
\* does not show.  selected_student_id is an id, or -1 for None.
update_autonomy_history(log, window, selected_student_id) ==
    LET parsed == py_int(window)
        w == IF parsed.kind = "raised" THEN 10 ELSE parsed.value
        DigitStr(n) == SubSeq("0123456789", n + 1, n + 1)
        suffix == IF selected_student_id = -1 THEN "None"
                  ELSE IF selected_student_id < 10 THEN DigitStr(selected_student_id)
                  ELSE DigitStr(selected_student_id \div 10)
                          \o DigitStr(selected_student_id % 10)
        EndsWith(e) ==
            /\ Len(e.name) >= Len(suffix)
            /\ SubSeq(e.name, Len(e.name) - Len(suffix) + 1, Len(e.name)) = suffix
        matched == SelectRows(log, EndsWith)
        filtered_log == IF Len(matched) = 0 THEN log ELSE matched
        data == Reverse(SubSeq(filtered_log, 1,
                               IF w >= 0
                               THEN (IF Len(filtered_log) < w THEN Len(filtered_log) ELSE w)
                               ELSE Len(filtered_log) + w))
        Autonomy(e) == e.autonomy
    IN  IF Len(log) = 0 THEN [kind |-> "figure", matches |-> 0, x |-> <<>>, y |-> <<>>]
        ELSE [kind |-> "figure", matches |-> Len(matched),
              x |-> [i \in 1..Len(data) |-> i] \o <<>>, y |-> Column(data, Autonomy)]

\* The stores after no call of the timer and after 3, 8, 12 and 29 calls.
InitHist ==
    \E k \in {0, 3, 8, 12, LogCapacity - 1}, pattern \in WarmPatterns :
        /\ students = WarmRun(k, pattern).students
        /\ autonomy_log = WarmRun(k, pattern).autonomy_log
        /\ n_intervals = k
        /\ api_key_data = PyDict({<<"api_key", DEFAULT_OPENAI_API_KEY>>})
        /\ conversation = <<>>
        /\ mentor = PageIdle
        /\ resend = PageIdle
        /\ panel = Idle
        /\ OPENAI_OK = TRUE
        /\ DF_STUD = <<>>
        /\ DF_ITEMS = <<>>
        /\ DF_TRAJ = <<>>
        /\ now = 0
        /\ recs = Idle
        /\ plan = Idle
        /\ InitPage
        /\ InitProgress

\* One run of the callback: window is a value of radio-hist-window ("5",
\* "10", "15"), None, a text that is no number, or a number with a
\* fraction; the student is one of dropdown-student or an id no student has.
UpdateAutonomyHistory ==
    /\ panel = Idle
    /\ \E window \in {PyStr("5"), PyStr("10"), PyStr("15"), PyNoneStr, PyStr("all"),
                      PyFloat(Rat(15, 2))},
          selected_student_id \in StudentIds :
        panel' = [request |-> [op |-> "update_autonomy_history", window |-> window,
                               selected_student_id |-> selected_student_id],
                  result  |-> update_autonomy_history(autonomy_log, window,
                                                      selected_student_id)]
    /\ UNCHANGED <<DF_STUD, DF_ITEMS, DF_TRAJ, now, recs, plan, pageVars, progressVars,
                   OPENAI_OK, api_key_data, students, autonomy_log, n_intervals,
                   conversation, mentor, resend>>

NextHist == UpdateAutonomyHistory \/ PanelReturn

SpecHist == InitHist /\ [][NextHist]_vars

\* The autonomy values of the first n events of the log, oldest first.
RecentOldestFirst(n) ==
    [i \in 1..n |-> autonomy_log[n + 1 - i].autonomy] \o <<>>

\* The window value v is an integer: a string that spells one.
IsInteger(v) == v.py = "str" /\ py_int(v).kind = "int"

\* The integer that the window of the latest request spells.
AskedWindow == py_int(panel.request.window).value

\* C25 as stated: for every non-empty log, window and selected id of the
\* cohort the callback finds no event of the student and charts the whole
\* log, the min(window, length) most recent events from oldest to newest; a
\* window that is not an integer is treated as 10.
C25_NonIntegerWindowIsTen ==
    (panel.request.op = "update_autonomy_history" /\ autonomy_log # <<>>) =>
        LET w == IF IsInteger(panel.request.window) THEN AskedWindow ELSE 10
            n == IF Len(autonomy_log) < w THEN Len(autonomy_log) ELSE w
        IN  /\ panel.result.matches = 0
            /\ panel.result.y = RecentOldestFirst(n)

\* C25 amended: as stated, but a window is treated as 10 only when int()
\* cannot convert it (None, a text that is no integer literal); a number
\* with a fraction is truncated to the integer below it.
C25_UnconvertibleWindowIsTen ==
    (panel.request.op = "update_autonomy_history" /\ autonomy_log # <<>>) =>
        LET v == panel.request.window
            w == IF IsInteger(v) THEN AskedWindow
                 ELSE IF v.py = "float" THEN v.value.n \div v.value.d
                 ELSE 10
            n == IF Len(autonomy_log) < w THEN Len(autonomy_log) ELSE w
        IN  /\ panel.result.matches = 0
            /\ panel.result.y = RecentOldestFirst(n)
            /\ panel.result.x = [i \in 1..n |-> i]

\* A log of 12 events charted for a student of the cohort with no window
\* value: 10 events, the oldest of them first, the newest of the log last.
C25_Witness ==
    /\ panel.request.op = "update_autonomy_history"
    /\ panel.request.window = PyNoneStr
    /\ panel.request.selected_student_id \in {1, 2, 3, 4}
    /\ Len(autonomy_log) = 12
    /\ Len(panel.result.y) = 10
    /\ panel.result.y[10] = autonomy_log[1].autonomy
    /\ panel.result.y[1] = autonomy_log[10].autonomy
    /\ panel.result.y[1] # panel.result.y[10]

(***************************************************************************)
(* Properties of the conversation.                                         *)
(***************************************************************************)
\* The message is missing, empty or made of spaces only.
NothingToSend(m) ==
    m.py = "None" \/ \A i \in 1..Len(m.text) : SubSeq(m.text, i, i) = " "

\* A step in which the callback takes up a send in the holder: before and
\* after are the values of the holder.
TakesUp(before, after) == before.phase = "idle" /\ after.phase # "idle"

\* What taking up a send does to the conversation.  A send with nothing to
\* send returns at once and leaves the conversation; a send that is answered
\* without the service leaves the conversation it was given followed by the
\* question and a reply; a send that goes to the service holds the
\* conversation it was given followed by the question.
SendEffect(before, after) ==
    TakesUp(before, after) =>
        LET user_message == after.request.user_message
        IN  IF NothingToSend(user_message)
            THEN conversation' = conversation /\ after.phase = "returned"
            ELSE IF after.phase = "calling"
            THEN /\ conversation' = conversation
                 /\ Len(after.result.asked) = Len(conversation) + 1
                 /\ SubSeq(after.result.asked, 1, Len(conversation)) = conversation
                 /\ after.result.asked[Len(conversation) + 1].role = "user"
                 /\ after.result.asked[Len(conversation) + 1].content = user_message
            ELSE /\ Len(conversation') = Len(conversation) + 2
                 /\ SubSeq(conversation', 1, Len(conversation)) = conversation
                 /\ conversation'[Len(conversation) + 1].role = "user"
                 /\ conversation'[Len(conversation) + 1].content = user_message
                 /\ conversation'[Len(conversation) + 2].role = "assistant"
                 /\ conversation'[Len(conversation) + 2].content
                        \in {PyStr(LibraryMissingText), PyStr(NoKeyText)}

\* What the answer of the service does: the send returns the list it held
\* followed by one reply.
ReplyEffect(before, after) ==
    (before.phase = "calling" /\ after.phase = "returned") =>
        /\ Len(conversation') = Len(before.result.asked) + 1
        /\ SubSeq(conversation', 1, Len(before.result.asked)) = before.result.asked
        /\ conversation'[Len(conversation')].role = "assistant"

\* C26: a send with a missing, empty or blank message leaves the
\* conversation and calls no service; every other send returns the
\* conversation it was given followed by two entries, the question and then
\* one reply (the text of the fallback when the call fails), with no earlier
\* entry changed; the conversation alternates user, assistant, from user.
C26_TwoEntriesPerSend ==
    /\ [](\A i \in 1..Len(conversation) :
            conversation[i].role = (IF i % 2 = 1 THEN "user" ELSE "assistant"))
    /\ [][/\ SendEffect(mentor, mentor')
          /\ SendEffect(resend, resend')
          /\ ReplyEffect(mentor, mentor')
          /\ ReplyEffect(resend, resend')
          /\ (conversation' # conversation =>
                \/ TakesUp(mentor, mentor')
                \/ mentor.phase = "calling" /\ mentor'.phase = "returned"
                \/ resend.phase = "calling" /\ resend'.phase = "returned")]_vars

\* A question has been asked and answered with the text of a failed call;
\* then a send of spaces only has returned, and the two entries are as they
\* were.
C26_Witness ==
    /\ Len(conversation) = 2
    /\ conversation[1].content = PyStr("How do I start?")
    /\ conversation[2].content = PyStr(NoContentText)
    /\ mentor.phase = "returned"
    /\ mentor.request.user_message = PyStr("  ")

\* The conversation holds the message as a question with a reply after it.
AskedAndAnswered(user_message) ==
    \E i \in 1..(Len(conversation) - 1) :
        /\ conversation[i].role = "user"
        /\ conversation[i].content = user_message
        /\ conversation[i + 1].role = "assistant"

\* C28 as stated: when two sends overlap, the second issued before the
\* result of the first is written to the store, the store after both holds
\* both questions, each followed by its reply: no accepted message is lost.
C28_NoAcceptedMessageLost ==
    (/\ mentor.phase = "returned"
     /\ resend.phase = "returned"
     /\ ~NothingToSend(mentor.request.user_message)
     /\ ~NothingToSend(resend.request.user_message))
        => /\ AskedAndAnswered(mentor.request.user_message)
           /\ AskedAndAnswered(resend.request.user_message)

(***************************************************************************)
(* The autonomy log against the students store.                            *)
(***************************************************************************)
\* The places of the log that hold an event of the student of the name.
EventsOf(name) == {k \in 1..Len(autonomy_log) : autonomy_log[k].name = name}

\* C27: after any number of calls of the timer, for every student with an
\* event in the log, the newest event of the student records the student's
\* autonomy as it is now, as a percentage rounded to one decimal, and the
\* events of the student from newest to oldest never increase.
C27_LogFollowsAutonomy ==
    \A i \in 1..Len(students) :
        LET own == EventsOf(students[i].name)
        IN  own # {} =>
                /\ \E k \in own :
                    /\ \A l \in own : k <= l
                    /\ autonomy_log[k].autonomy = RoundPercent(students[i].autonomy)
                /\ \A k, l \in own :
                    k < l => RLe(autonomy_log[l].autonomy, autonomy_log[k].autonomy)

\* After more calls than the log holds, a student has events of different
\* values; the newest of them, which another student's event has followed,
\* is the student's autonomy now, which is not the value loaded at the start.
C27_Witness ==
    /\ n_intervals > LogCapacity
    /\ \E i \in 1..Len(students) :
        LET own == EventsOf(students[i].name)
        IN  /\ \E k, l \in own :
                k < l /\ RLt(autonomy_log[l].autonomy, autonomy_log[k].autonomy)
            /\ \E k \in own :
                /\ \A l \in own : k <= l
                /\ k > 1
                /\ autonomy_log[k].autonomy = RoundPercent(students[i].autonomy)
                /\ students[i].autonomy # INITIAL_STUDENTS[i].autonomy

(***************************************************************************)
(* The weekly plan against the engagement of the learner.                  *)
(***************************************************************************)
\* The schedule that lines 1099-1109 build from the weights of the latest
\* plan for a learner of engagement e.
ScheduleWith(e) ==
    LET Assign(r) == DayRows(r.domain, r.hours, e)
    IN  Concat(Column(plan.result.weights, Assign))

GapOf(sid, d, b) ==
    RAbs(RSub(b, IF HistoryIdx(sid, d) # {} THEN HistoryTheta(sid, d)
                 ELSE ColdStartTheta(sid, d)))

\* C30: generate_assessment produces min(n_q, number of the items
\* recommended for the domain) questions, hence never more than 3 for n_q
\* in 3..10; the questions are numbered Q1, Q2, ... and are items of the
\* domain in ascending order of gap.
C30_QuestionsFollowRecommendation ==
    (page.request.op = "generate_assessment" /\ page.result.kind = "questions") =>
        LET q == page.result.questions
            sid == page.request.student_id
            dom == page.request.dom
            n_q == page.request.n_q
            items == Cardinality(BankOf(dom))
            recommended == IF items < TopK THEN items ELSE TopK
        IN  /\ Len(q) = (IF n_q < recommended THEN n_q ELSE recommended)
            /\ Len(q) <= 3
            /\ \A i \in 1..Len(q) :
                /\ q[i].number = i
                /\ \E k \in BankOf(dom) :
                    DF_ITEMS[k].item_id = q[i].item_id /\ DF_ITEMS[k].b = q[i].b
            /\ \A i, j \in 1..Len(q) :
                i < j => /\ q[i].item_id # q[j].item_id
                         /\ RLe(GapOf(sid, dom, q[i].b), GapOf(sid, dom, q[j].b))

\* Ten questions are asked for in a domain of four items: three questions
\* come back, numbered 1 to 3, the last farther from the estimate than the
\* first.
C30_Witness ==
    /\ page.request.op = "generate_assessment"
    /\ page.result.kind = "questions"
    /\ page.request.n_q = 10
    /\ Cardinality(BankOf(page.request.dom)) = 4
    /\ Len(page.result.questions) = 3
    /\ page.result.questions[3].number = 3
    /\ RLt(GapOf(page.request.student_id, page.request.dom, page.result.questions[1].b),
           GapOf(page.request.student_id, page.request.dom, page.result.questions[3].b))

=============================================================================
